---- MODULE Spec2Model ----
(***************************************************************************)
(* Paper-folding engine (integrations/paper_engine.py): geometry kernel,   *)
(* PaperState, step renderer and tutorial builder.                         *)
(*                                                                         *)
(* Numbers are exact rationals <<n, d>> (d > 0, lowest terms) standing for *)
(* the Python floats; the 1e-10 tolerances of the source are compared      *)
(* exactly.  A point is <<x, y>>, a polygon a sequence of points, a layer  *)
(* list a sequence of polygons.  None is the empty tuple.                  *)
(*                                                                         *)
(* Where the rounding of the floats decides the outcome, _split_polygon    *)
(* and PaperState.cut are also computed on binary64 values (f64_ names and *)
(* SpecFloat).                                                             *)
(***************************************************************************)
EXTENDS Integers, Sequences, FiniteSets, TLC

VARIABLES
    layers,     \* PaperState.layers of the paper under test
    size,       \* PaperState.size
    before,     \* layers as they were when the last operation was called
    last,       \* the last operation called: [type, from, to, side], or NoOp
    nops,       \* number of operations called so far
    sp_polygon, \* _split_polygon under test: its polygon argument
    sp_line,    \* its line argument, <<<<lx1, ly1>>, <<lx2, ly2>>>>
    sp_out,     \* its return value <<left, right>>, None before the call
    fold_ops,   \* build_tutorial_svgs: its argument, a list of dicts
    bi,         \* position of the for loop in fold_ops (1-based)
    paper,      \* the local paper: paper.layers
    svgs,       \* the local list svgs
    bpc,        \* "idle", "loop", "done" (returned) or "raised" (an exception left the call)
    result,     \* the list returned to the caller, None until bpc = "done"
    prev_results, \* the lists earlier calls returned for the same fold_ops
    heap,       \* list objects by address: [kind, items]; a layer list holds the
                \* addresses of its polygons, a polygon holds its points
    s_obj,      \* PaperState s: [layers |-> address, size]
    c_obj,      \* s.clone(), NoObj before the call
    cl_last,    \* the last call on the heap: "none", "clone", "s" or "c" (an operation on it)
    cl_prev,    \* <<layers of s, layers of c>> as they were before that call
    cl_n,       \* number of operations called on s and c
    k_fn,       \* the geometry helper called last: "none", "reflect", "side",
                \* "intersect" or "split"
    k_args,     \* its arguments
    k_ret,      \* its return value
    k_back,     \* _reflect_point(k_ret, same line) once it was called, else None
    r_before,   \* render_step_svg under test: before.layers
    r_after,    \* after.layers
    r_op,       \* [fold_line, fold_type, action_label]
    r_out,      \* its return value, None before the call
    a_new,      \* an operation of the paper under test in progress: its local new_layers
    a_i,        \* position of its for loop in self.layers (1-based)
    a_pc,       \* "idle", "loop", "returned" or "raised"
    t_objs,     \* two concurrent build_tutorial_svgs calls: the PaperState
                \* objects made so far, by address (their layers)
    t_ops,      \* per call: its fold_ops argument
    t_pc,       \* per call: "idle", "loop", "applied", "done"
    t_bi,       \* per call: position of its for loop
    t_paper,    \* per call: the address its local paper holds, 0 before line 303
    t_before,   \* per call: its local before (the layers of the clone)
    t_svgs,     \* per call: its local svgs, the list it returns
    f_polygon,  \* binary64 arithmetic: the polygon split and cut
    f_line,     \* the line, two points
    f_side,     \* keep_side of the cut
    f_split,    \* <<_split_polygon(polygon), _split_polygon(reversed polygon)>>,
                \* None before the calls
    f_layers    \* self.layers after each cut called so far

paperVars == <<layers, size, before, last, nops>>
splitVars == <<sp_polygon, sp_line, sp_out>>
buildVars == <<fold_ops, bi, paper, svgs, bpc, result, prev_results>>
cloneVars == <<heap, s_obj, c_obj, cl_last, cl_prev, cl_n>>
kernelVars == <<k_fn, k_args, k_ret, k_back>>
renderVars == <<r_before, r_after, r_op, r_out>>
atomVars == <<a_new, a_i, a_pc>>
concVars == <<t_objs, t_ops, t_pc, t_bi, t_paper, t_before, t_svgs>>
floatVars == <<f_polygon, f_line, f_side, f_split, f_layers>>
vars == <<paperVars, splitVars, buildVars, cloneVars, kernelVars, renderVars,
          atomVars, concVars, floatVars>>

\* ------------------------------------------------------------------ numbers

None == <<>>

Abs(n) == IF n < 0 THEN -n ELSE n

RECURSIVE GCD(_, _)
GCD(a, b) == IF b = 0 THEN a ELSE GCD(b, a % b)

Q(n, d) ==
    LET s == IF d < 0 THEN -1 ELSE 1
        g == GCD(Abs(n), Abs(d))
    IN  <<(s * n) \div g, (s * d) \div g>>

Zero == Q(0, 1)
One  == Q(1, 1)
Two  == Q(2, 1)

RAdd(x, y) == Q(x[1] * y[2] + y[1] * x[2], x[2] * y[2])
RSub(x, y) == Q(x[1] * y[2] - y[1] * x[2], x[2] * y[2])
RMul(x, y) == Q(x[1] * y[1], x[2] * y[2])
RDiv(x, y) == Q(x[1] * y[2], x[2] * y[1])
RNeg(x)    == <<-x[1], x[2]>>
RLt(x, y)  == x[1] * y[2] < y[1] * x[2]
RLe(x, y)  == x[1] * y[2] <= y[1] * x[2]

\* the tolerance 1e-10 of the source is 1 / (EpsRoot * EpsRoot)
EpsRoot == 100000

CeilDiv(a, b) == (a + b - 1) \div b

\* x > 1e-10
GtEps(x) == x[1] > (x[2] \div EpsRoot) \div EpsRoot
\* x < -1e-10
LtNegEps(x) == GtEps(RNeg(x))
\* abs(x) < 1e-10
AbsLtEps(x) == Abs(x[1]) < CeilDiv(CeilDiv(x[2], EpsRoot), EpsRoot)

\* ---------------------------------------------------------- geometry kernel

\* reflect_point whose zero-length fallback returns the line's point
reflect_point_to_line(px, py, lx1, ly1, lx2, ly2) ==
    LET dx == RSub(lx2, lx1)
        dy == RSub(ly2, ly1)
        len_sq == RAdd(RMul(dx, dx), RMul(dy, dy))
    IN  IF len_sq = Zero
        THEN <<lx1, ly1>>
        ELSE LET t == RDiv(RAdd(RMul(RSub(px, lx1), dx), RMul(RSub(py, ly1), dy)), len_sq)
                 proj_x == RAdd(lx1, RMul(t, dx))
                 proj_y == RAdd(ly1, RMul(t, dy))
             IN  <<RSub(RMul(Two, proj_x), px), RSub(RMul(Two, proj_y), py)>>

\* reflect_point returning the projection (proj_x, proj_y)
reflect_point_projection(px, py, lx1, ly1, lx2, ly2) ==
    LET dx == RSub(lx2, lx1)
        dy == RSub(ly2, ly1)
        len_sq == RAdd(RMul(dx, dx), RMul(dy, dy))
    IN  IF len_sq = Zero
        THEN <<px, py>>
        ELSE LET t == RDiv(RAdd(RMul(RSub(px, lx1), dx), RMul(RSub(py, ly1), dy)), len_sq)
             IN  <<RAdd(lx1, RMul(t, dx)), RAdd(ly1, RMul(t, dy))>>

reflect_point(px, py, lx1, ly1, lx2, ly2) ==
    LET dx == RSub(lx2, lx1)
        dy == RSub(ly2, ly1)
        len_sq == RAdd(RMul(dx, dx), RMul(dy, dy))
    IN  IF len_sq = Zero
        THEN <<px, py>>
        ELSE LET t == RDiv(RAdd(RMul(RSub(px, lx1), dx), RMul(RSub(py, ly1), dy)), len_sq)
                 proj_x == RAdd(lx1, RMul(t, dx))
                 proj_y == RAdd(ly1, RMul(t, dy))
             IN  <<RSub(RMul(Two, proj_x), px), RSub(RMul(Two, proj_y), py)>>

side_of_line(px, py, lx1, ly1, lx2, ly2) ==
    RSub(RMul(RSub(lx2, lx1), RSub(py, ly1)), RMul(RSub(ly2, ly1), RSub(px, lx1)))

line_segment_intersection(ax1, ay1, ax2, ay2, bx1, by1, bx2, by2) ==
    LET dax == RSub(ax2, ax1)
        day == RSub(ay2, ay1)
        dbx == RSub(bx2, bx1)
        dby == RSub(by2, by1)
        denom == RSub(RMul(dax, dby), RMul(day, dbx))
    IN  IF AbsLtEps(denom)
        THEN None
        ELSE LET t == RDiv(RSub(RMul(RSub(bx1, ax1), dby), RMul(RSub(by1, ay1), dbx)), denom)
                 s == RDiv(RSub(RMul(RSub(bx1, ax1), day), RMul(RSub(by1, ay1), dax)), denom)
             IN  IF /\ ~LtNegEps(t) /\ ~GtEps(RSub(t, One))
                    /\ ~LtNegEps(s) /\ ~GtEps(RSub(s, One))
                 THEN <<RAdd(ax1, RMul(t, dax)), RAdd(ay1, RMul(t, day))>>
                 ELSE None

\* split_step with the test of line 72 lost: every vertex goes to left
split_step_left_all(polygon, lx1, ly1, lx2, ly2, i, acc) ==
    LET n == Len(polygon)
        curr == polygon[i]
        nxt == polygon[(i % n) + 1]
        side_curr == side_of_line(curr[1], curr[2], lx1, ly1, lx2, ly2)
        side_next == side_of_line(nxt[1], nxt[2], lx1, ly1, lx2, ly2)
        left1 == Append(acc[1], curr)
        right1 == IF RLe(side_curr, Zero) THEN Append(acc[2], curr) ELSE acc[2]
        crosses == \/ (GtEps(side_curr) /\ LtNegEps(side_next))
                   \/ (LtNegEps(side_curr) /\ GtEps(side_next))
        pt == line_segment_intersection(curr[1], curr[2], nxt[1], nxt[2],
                                        lx1, ly1, lx2, ly2)
    IN  IF crosses /\ pt /= None
        THEN <<Append(left1, pt), Append(right1, pt)>>
        ELSE <<left1, right1>>

\* one iteration of the loop of _split_polygon, on the pair acc = <<left, right>>
split_step(polygon, lx1, ly1, lx2, ly2, i, acc) ==
    LET n == Len(polygon)
        curr == polygon[i]
        nxt == polygon[(i % n) + 1]
        side_curr == side_of_line(curr[1], curr[2], lx1, ly1, lx2, ly2)
        side_next == side_of_line(nxt[1], nxt[2], lx1, ly1, lx2, ly2)
        left1 == IF RLe(Zero, side_curr) THEN Append(acc[1], curr) ELSE acc[1]
        right1 == IF RLe(side_curr, Zero) THEN Append(acc[2], curr) ELSE acc[2]
        crosses == \/ (GtEps(side_curr) /\ LtNegEps(side_next))
                   \/ (LtNegEps(side_curr) /\ GtEps(side_next))
        pt == line_segment_intersection(curr[1], curr[2], nxt[1], nxt[2],
                                        lx1, ly1, lx2, ly2)
    IN  IF crosses /\ pt /= None
        THEN <<Append(left1, pt), Append(right1, pt)>>
        ELSE <<left1, right1>>

RECURSIVE split_loop(_, _, _, _, _, _, _)
split_loop(polygon, lx1, ly1, lx2, ly2, i, acc) ==
    IF i > Len(polygon)
    THEN acc
    ELSE split_loop(polygon, lx1, ly1, lx2, ly2, i + 1,
                    split_step(polygon, lx1, ly1, lx2, ly2, i, acc))

\* returns <<left, right>>
split_polygon(polygon, lx1, ly1, lx2, ly2) ==
    split_loop(polygon, lx1, ly1, lx2, ly2, 1, <<<<>>, <<>>>>)

\* --------------------------------------------------------------- PaperState

\* reflect_all leaving every point where it is
reflect_all_unmoved(poly, lx1, ly1, lx2, ly2) ==
    [k \in 1..Len(poly) |-> <<poly[k][1], poly[k][2]>>]

\* [_reflect_point(p[0], p[1], lx1, ly1, lx2, ly2) for p in poly]
reflect_all(poly, lx1, ly1, lx2, ly2) ==
    [k \in 1..Len(poly) |-> reflect_point(poly[k][1], poly[k][2], lx1, ly1, lx2, ly2)]

\* PaperState.__init__
initial_layers(sz) == << <<<<Zero, Zero>>, <<sz, Zero>>, <<sz, sz>>, <<Zero, sz>>>> >>

\* fold_pieces with the two branches of line 120 exchanged
fold_pieces_swapped(polygon, line_from, line_to, fold_side) ==
    LET lx1 == line_from[1]
        ly1 == line_from[2]
        lx2 == line_to[1]
        ly2 == line_to[2]
        pieces(left, right) ==
            IF fold_side \in {"top", "left"}
            THEN (IF right /= <<>> THEN <<reflect_all(right, lx1, ly1, lx2, ly2)>> ELSE <<>>)
                 \o (IF left /= <<>> THEN <<left>> ELSE <<>>)
            ELSE (IF left /= <<>> THEN <<reflect_all(left, lx1, ly1, lx2, ly2)>> ELSE <<>>)
                 \o (IF right /= <<>> THEN <<right>> ELSE <<>>)
    IN  CHOOSE r \in {pieces(lr[1], lr[2]) :
                        lr \in {split_polygon(polygon, lx1, ly1, lx2, ly2)}} : TRUE

\* the pieces one layer contributes to new_layers in valley_fold; the split is
\* evaluated once (CHOOSE over its singleton)
fold_pieces(polygon, line_from, line_to, fold_side) ==
    LET lx1 == line_from[1]
        ly1 == line_from[2]
        lx2 == line_to[1]
        ly2 == line_to[2]
        pieces(left, right) ==
            IF fold_side \in {"bottom", "right"}
            THEN (IF right /= <<>> THEN <<reflect_all(right, lx1, ly1, lx2, ly2)>> ELSE <<>>)
                 \o (IF left /= <<>> THEN <<left>> ELSE <<>>)
            ELSE (IF left /= <<>> THEN <<reflect_all(left, lx1, ly1, lx2, ly2)>> ELSE <<>>)
                 \o (IF right /= <<>> THEN <<right>> ELSE <<>>)
    IN  CHOOSE r \in {pieces(lr[1], lr[2]) :
                        lr \in {split_polygon(polygon, lx1, ly1, lx2, ly2)}} : TRUE

\* fold_new_layers putting the pieces of a later layer in front (insert(0, ...))
RECURSIVE fold_new_layers_reversed(_, _, _, _)
fold_new_layers_reversed(ls, line_from, line_to, fold_side) ==
    IF ls = <<>>
    THEN <<>>
    ELSE fold_new_layers_reversed(Tail(ls), line_from, line_to, fold_side)
         \o fold_pieces(Head(ls), line_from, line_to, fold_side)

\* new_layers at the end of the loop of valley_fold
RECURSIVE fold_new_layers(_, _, _, _)
fold_new_layers(ls, line_from, line_to, fold_side) ==
    IF ls = <<>>
    THEN <<>>
    ELSE fold_pieces(Head(ls), line_from, line_to, fold_side)
         \o fold_new_layers(Tail(ls), line_from, line_to, fold_side)

\* PaperState.valley_fold: the value of self.layers after the call
valley_fold(ls, line_from, line_to, fold_side) ==
    LET new_layers == fold_new_layers(ls, line_from, line_to, fold_side)
    IN  IF new_layers /= <<>> THEN new_layers ELSE ls

\* mountain_fold moving the other side of the line
mountain_fold_opposite(ls, line_from, line_to, fold_side) ==
    valley_fold(ls, line_from, line_to,
                IF fold_side \in {"bottom", "right"} THEN "top" ELSE "bottom")

\* PaperState.mountain_fold
mountain_fold(ls, line_from, line_to, fold_side) ==
    valley_fold(ls, line_from, line_to, fold_side)

\* cut_pieces keeping the piece of the other side
cut_pieces_swapped(polygon, line_from, line_to, keep_side) ==
    LET kept(left, right) ==
            IF keep_side = "left" /\ right /= <<>> THEN <<right>>
            ELSE IF keep_side = "right" /\ left /= <<>> THEN <<left>>
            ELSE <<>>
    IN  CHOOSE r \in {kept(lr[1], lr[2]) :
                        lr \in {split_polygon(polygon, line_from[1], line_from[2],
                                                line_to[1], line_to[2])}} : TRUE

\* cut_pieces that keeps the piece on the other side of the line as well
cut_pieces_both(polygon, line_from, line_to, keep_side) ==
    CHOOSE r \in {(IF lr[1] /= <<>> THEN <<lr[1]>> ELSE <<>>)
                    \o (IF lr[2] /= <<>> THEN <<lr[2]>> ELSE <<>>) :
                        lr \in {split_polygon(polygon, line_from[1], line_from[2],
                                                line_to[1], line_to[2])}} : TRUE

\* the pieces one layer contributes to new_layers in cut
cut_pieces(polygon, line_from, line_to, keep_side) ==
    LET kept(left, right) ==
            IF keep_side = "left" /\ left /= <<>> THEN <<left>>
            ELSE IF keep_side = "right" /\ right /= <<>> THEN <<right>>
            ELSE <<>>
    IN  CHOOSE r \in {kept(lr[1], lr[2]) :
                        lr \in {split_polygon(polygon, line_from[1], line_from[2],
                                                line_to[1], line_to[2])}} : TRUE

\* new_layers at the end of the loop of cut
RECURSIVE cut_new_layers(_, _, _, _)
cut_new_layers(ls, line_from, line_to, keep_side) ==
    IF ls = <<>>
    THEN <<>>
    ELSE cut_pieces(Head(ls), line_from, line_to, keep_side)
         \o cut_new_layers(Tail(ls), line_from, line_to, keep_side)

\* cut without the fallback of line 152: self.layers = new_layers
cut_no_fallback(ls, line_from, line_to, keep_side) ==
    cut_new_layers(ls, line_from, line_to, keep_side)

\* PaperState.cut: the value of self.layers after the call
cut(ls, line_from, line_to, keep_side) ==
    LET new_layers == cut_new_layers(ls, line_from, line_to, keep_side)
    IN  IF new_layers /= <<>> THEN new_layers ELSE ls

RMin(x, y) == IF RLt(y, x) THEN y ELSE x
RMax(x, y) == IF RLt(x, y) THEN y ELSE x

\* [p for layer in self.layers for p in layer]
RECURSIVE all_pts(_)
all_pts(ls) == IF ls = <<>> THEN <<>> ELSE Head(ls) \o all_pts(Tail(ls))

\* min(...) / max(...) of coordinate c (1 = x, 2 = y) over a non-empty point list
RECURSIVE min_coord(_, _)
min_coord(pts, c) ==
    IF Len(pts) = 1 THEN pts[1][c] ELSE RMin(pts[1][c], min_coord(Tail(pts), c))

RECURSIVE max_coord(_, _)
max_coord(pts, c) ==
    IF Len(pts) = 1 THEN pts[1][c] ELSE RMax(pts[1][c], max_coord(Tail(pts), c))

\* PaperState.get_bounds: <<min_x, min_y, max_x, max_y>>
get_bounds(ls, sz) ==
    LET pts == all_pts(ls)
    IN  IF pts = <<>>
        THEN <<Zero, Zero, sz, sz>>
        ELSE <<min_coord(pts, 1), min_coord(pts, 2), max_coord(pts, 1), max_coord(pts, 2)>>

\* PaperState.clone: the layers of the copy
clone(ls) == [i \in 1..Len(ls) |-> [k \in 1..Len(ls[i]) |-> ls[i][k]]]

\* ---- PaperState objects on a heap of list objects

NoObj == [layers |-> 0, size |-> Zero]

\* the value of the layer list at address a
Deref(h, a) == [i \in 1..Len(h[a].items) |-> h[h[a].items[i]].items]

\* the value of obj.layers, None for NoObj
LayersOf(h, obj) == IF obj = NoObj THEN None ELSE Deref(h, obj.layers)

\* a new layer list of new polygon lists holding ls: <<heap, address of the list>>
store_layers(h, ls) ==
    LET n == Len(h)
        h1 == h \o [i \in 1..Len(ls) |-> [kind |-> "polygon", items |-> ls[i]]]
                \o <<[kind |-> "layers", items |-> [i \in 1..Len(ls) |-> n + i]]>>
    IN  <<h1, n + Len(ls) + 1>>

\* self.layers = new_layers if new_layers else self.layers: <<heap, obj>>.
\* new_layers and the pieces in it are lists made by the call
assign_layers(h, obj, new_layers) ==
    IF new_layers /= <<>>
    THEN LET st == store_layers(h, new_layers)
         IN  <<st[1], [layers |-> st[2], size |-> obj.size]>>
    ELSE <<h, obj>>

\* clone keeping the polygon lists of self: new.layers = list(self.layers)
heap_clone_shallow(h, obj) ==
    <<Append(h, [kind |-> "layers", items |-> h[obj.layers].items]),
      [layers |-> Len(h) + 1, size |-> obj.size]>>

\* PaperState.clone on the heap: <<heap, the new object>>
heap_clone(h, obj) ==
    LET st == store_layers(h, Deref(h, obj.layers))
    IN  <<st[1], [layers |-> st[2], size |-> obj.size]>>

\* ------------------------------------------------------------- SVG renderer

\* f"{x:.1f}": the sign and the number of tenths, ties to even
Fmt1(x) ==
    CHOOSE r \in {[neg |-> v[1] < 0,
                   tenths |-> LET n == 10 * Abs(v[1])
                                  q == n \div v[2]
                                  rem == n % v[2]
                              IN  IF 2 * rem > v[2] \/ (2 * rem = v[2] /\ q % 2 = 1)
                                  THEN q + 1 ELSE q]
                  : v \in {x}} : TRUE

\* layout constants of render_step_svg
a_center_x == 87
b_center_x == 253
center_y == 115
half_w == 65
DefaultHeight == 260

\* _make_transform: <<scale, ox, oy>>; tx(x) = x * scale + ox, ty(y) = y * scale + oy
make_transform(ls, sz, cx, cy) ==
    CHOOSE r \in {
        LET sw == IF b[3] /= b[1] THEN RSub(b[3], b[1]) ELSE One
            sh == IF b[4] /= b[2] THEN RSub(b[4], b[2]) ELSE One
            scale == RMin(RDiv(Q(half_w * 2, 1), sw), RDiv(Q(DefaultHeight - 80, 1), sh))
        IN  <<scale,
              RSub(Q(cx, 1), RMul(RAdd(b[1], RDiv(sw, Two)), scale)),
              RSub(Q(cy, 1), RMul(RAdd(b[2], RDiv(sh, Two)), scale))>>
        : b \in {get_bounds(ls, sz)}} : TRUE

\* _polygon_to_svg_path with tx = x * scale + ox + shift (shift is 0 or 2): the
\* path data "M x y L x y ... Z" as its list of formatted points, "" as <<>>
polygon_to_svg_path(polygon, tr, shift) ==
    [k \in 1..Len(polygon) |->
        <<Fmt1(RAdd(RAdd(RMul(polygon[k][1], tr[1]), tr[2]), Q(shift, 1))),
          Fmt1(RAdd(RAdd(RMul(polygon[k][2], tr[1]), tr[3]), Q(shift, 1)))>>]

\* one line of markup: an element with its path data, its other coordinates,
\* its colours, its opacity (None when absent) and its text content
Elem(el, path, nums, style, opacity, text) ==
    [el |-> el, path |-> path, nums |-> nums, style |-> style,
     opacity |-> opacity, text |-> text]

fold_color(fold_type) ==
    IF fold_type = "mountain_fold" THEN "#E74C3C"
    ELSE IF fold_type = "valley_fold" THEN "#3B82F6" ELSE "#8B7355"

fold_label(fold_type) ==
    IF fold_type = "valley_fold" THEN "valley"
    ELSE IF fold_type = "mountain_fold" THEN "mountain"
    ELSE IF fold_type = "cut" THEN "cut" ELSE "fold"

\* the two <path> lines of layer i (0-based) of the before state
before_layer_lines(layer, i, tr) ==
    <<Elem("path", polygon_to_svg_path(layer, tr, 2), <<>>, "#E8D5C0", Q(3, 10), ""),
      Elem("path", polygon_to_svg_path(layer, tr, 0), <<>>,
           IF i = 0 THEN "#FFE8E8" ELSE "#FFFEF5", None, "")>>

\* the two <path> lines of layer i (0-based) of the after state
after_layer_lines(layer, i, tr) ==
    <<Elem("path", polygon_to_svg_path(layer, tr, 2), <<>>, "#E8D5C0", Q(3, 10), ""),
      Elem("path", polygon_to_svg_path(layer, tr, 0), <<>>,
           IF i = 0 THEN "#FFFEF5" ELSE "#F5F0E8",
           RMax(Q(4, 10), RSub(One, RMul(Q(i, 1), Q(2, 10)))), "")>>

RECURSIVE before_lines(_, _, _)
before_lines(ls, i, tr) ==
    IF i >= Len(ls) THEN <<>>
    ELSE before_layer_lines(ls[i + 1], i, tr) \o before_lines(ls, i + 1, tr)

RECURSIVE after_lines(_, _, _)
after_lines(ls, i, tr) ==
    IF i >= Len(ls) THEN <<>>
    ELSE after_layer_lines(ls[i + 1], i, tr) \o after_lines(ls, i + 1, tr)

\* the fold line drawn on the A side, and the action arrow (a path and a circle)
\* when the drawn line has a length; the arrow's control points, which take a
\* square root, are left out of the element
fold_line_lines(fold_line, fold_type, tr) ==
    LET fl_x1 == RAdd(RMul(fold_line[1][1], tr[1]), tr[2])
        fl_y1 == RAdd(RMul(fold_line[1][2], tr[1]), tr[3])
        fl_x2 == RAdd(RMul(fold_line[2][1], tr[1]), tr[2])
        fl_y2 == RAdd(RMul(fold_line[2][2], tr[1]), tr[3])
        mid == <<Fmt1(RDiv(RAdd(fl_x1, fl_x2), Two)), Fmt1(RDiv(RAdd(fl_y1, fl_y2), Two))>>
    IN  <<Elem("line", <<>>, <<Fmt1(fl_x1), Fmt1(fl_y1), Fmt1(fl_x2), Fmt1(fl_y2)>>,
               fold_color(fold_type), None, "")>>
        \o (IF fl_x1 /= fl_x2 \/ fl_y1 /= fl_y2
            THEN <<Elem("path", <<mid>>, <<>>, "#10B981", None, ""),
                   Elem("circle", <<>>, <<>>, "#10B981", None, "")>>
            ELSE <<>>)

\* the characters of a str that are markup where text content is expected
\* ('<' and '&'), in their order in the str; the strs used as labels and
\* legend texts hold none but for the one label below
markup_chars(text) == IF text = "1 < 2 & 3" THEN <<"<", "&">> ELSE <<>>

\* render_step_svg with the default width and height: the lines of the markup
render_step_svg(before_ls, after_ls, sz, fold_line, fold_type, action_label) ==
    CHOOSE r \in {
        <<Elem("svg", <<>>, <<>>, "", None, ""),
          Elem("rect", <<>>, <<>>, "#FFF9F0", None, ""),
          Elem("text", <<>>, <<>>, "#999", None, "A")>>
        \o before_lines(before_ls, 0, tr_a)
        \o (IF fold_line /= None THEN fold_line_lines(fold_line, fold_type, tr_a) ELSE <<>>)
        \o <<Elem("path", <<>>, <<>>, "#666", None, ""),
              Elem("polygon", <<>>, <<>>, "#666", None, ""),
              Elem("text", <<>>, <<>>, "#8B7355", None, "B")>>
        \o after_lines(after_ls, 0, tr_b)
        \o (IF action_label /= "" THEN <<Elem("text", <<>>, <<>>, "#10B981", None, action_label)>>
            ELSE <<>>)
        \o <<Elem("line", <<>>, <<>>, fold_color(fold_type), None, ""),
              Elem("text", <<>>, <<>>, "#666", None, fold_label(fold_type)),
              Elem("line", <<>>, <<>>, "#10B981", None, ""),
              Elem("text", <<>>, <<>>, "#666", None, "action"),
              Elem("/svg", <<>>, <<>>, "", None, "")>>
        : tr_a \in {make_transform(before_ls, sz, a_center_x, center_y)},
          tr_b \in {make_transform(after_ls, sz, b_center_x, center_y)}} : TRUE

\* --------------------------------------------------------- tutorial builder

\* dict.get(key, default)
get(op, key, default) == IF key \in DOMAIN op THEN op[key] ELSE default

DefaultFoldLine == <<<<Zero, Q(1, 2)>>, <<One, Q(1, 2)>>>>

\* lines 312-315 raise IndexError unless fold_line_raw has two points of two
\* entries each
fold_line_indexable(fold_line_raw) ==
    /\ Len(fold_line_raw) >= 2
    /\ Len(fold_line_raw[1]) >= 2
    /\ Len(fold_line_raw[2]) >= 2

\* arithmetic on a coordinate that is not a number (None) raises TypeError: in
\* _side_of_line for a fold or a cut, in render_step_svg (tx_a) otherwise
fold_line_numeric(fold_line) ==
    \A k \in 1..2, c \in 1..2 : fold_line[k][c] /= None

\* the for-loop body completes for op without raising
op_usable(op) ==
    /\ fold_line_indexable(get(op, "fold_line", DefaultFoldLine))
    /\ fold_line_numeric(get(op, "fold_line", DefaultFoldLine))

\* op_fold_line with the vertical mid-line as the default
op_fold_line_vertical_default(op) ==
    LET fold_line_raw == get(op, "fold_line", <<<<Q(1, 2), Zero>>, <<Q(1, 2), One>>>>)
    IN  <<<<fold_line_raw[1][1], fold_line_raw[1][2]>>,
          <<fold_line_raw[2][1], fold_line_raw[2][2]>>>>

\* lines 312-315
op_fold_line(op) ==
    LET fold_line_raw == get(op, "fold_line", DefaultFoldLine)
    IN  <<<<fold_line_raw[1][1], fold_line_raw[1][2]>>,
          <<fold_line_raw[2][1], fold_line_raw[2][2]>>>>

\* apply_op with the else branch folding: every type that is not a cut folds
apply_op_unknown_folds(ls, op) ==
    LET op_type == get(op, "type", "valley_fold")
        fold_line == op_fold_line(op)
    IN  IF op_type = "cut"
        THEN cut(ls, fold_line[1], fold_line[2], get(op, "keep_side", "left"))
        ELSE valley_fold(ls, fold_line[1], fold_line[2], get(op, "fold_side", "bottom"))

\* lines 319-323: paper.layers after the operation of op
apply_op(ls, op) ==
    LET op_type == get(op, "type", "valley_fold")
        fold_line == op_fold_line(op)
    IN  IF op_type \in {"valley_fold", "mountain_fold"}
        THEN valley_fold(ls, fold_line[1], fold_line[2], get(op, "fold_side", "bottom"))
        ELSE IF op_type = "cut"
        THEN cut(ls, fold_line[1], fold_line[2], get(op, "keep_side", "left"))
        ELSE ls

\* op_svg with before = paper instead of paper.clone(): the operation assigns
\* the layers of the object both names refer to, so both halves show the
\* state after it
op_svg_before_aliased(before_ls, after_ls, sz, op) ==
    render_step_svg(clone(after_ls), clone(after_ls), sz, op_fold_line(op),
                    get(op, "type", "valley_fold"), get(op, "label", ""))

\* lines 327-333: the diagram of op, from the two snapshots
op_svg(before_ls, after_ls, sz, op) ==
    render_step_svg(clone(before_ls), clone(after_ls), sz, op_fold_line(op),
                    get(op, "type", "valley_fold"), get(op, "label", ""))

\* ----------------------------------------------------------------- binary64

\* Python floats as they are: IEEE 754 binary64, round to nearest, ties to
\* even.  A natural number is a list of limbs (base 2^15, least significant
\* first, no zero limb at the end); a float is <<sign, m, e>> standing for
\* sign * m * 2^e with 2^52 <= m < 2^53, and zero is <<0, <<>>, 0>> (0.0 and
\* -0.0 are equal in Python).  The values computed here stay far from the
\* ends of the exponent range; no infinity and no NaN arises.

LimbBase == 2^15

\* an operation whose arguments are used more than once takes their values
\* from one-element sets, so that each is evaluated once

Limb(x, i) == IF i <= Len(x) THEN x[i] ELSE 0
Zeros(n) == [i \in 1..n |-> 0]

RECURSIVE BTrim(_)
BTrim(x) ==
    IF x = <<>> THEN <<>>
    ELSE IF x[Len(x)] = 0 THEN BTrim(SubSeq(x, 1, Len(x) - 1)) ELSE x

RECURSIVE BAddV(_, _, _, _)
BAddV(x, y, i, c) ==
    IF i > Len(x) /\ i > Len(y)
    THEN (IF c = 0 THEN <<>> ELSE <<c>>)
    ELSE <<(Limb(x, i) + Limb(y, i) + c) % LimbBase>>
         \o BAddV(x, y, i + 1, (Limb(x, i) + Limb(y, i) + c) \div LimbBase)

BAdd(x, y) == BAddV(x, y, 1, 0)

\* x - y for x >= y
RECURSIVE BSubV(_, _, _, _)
BSubV(x, y, i, br) ==
    IF i > Len(x) THEN <<>>
    ELSE <<(x[i] - Limb(y, i) - br + LimbBase) % LimbBase>>
         \o BSubV(x, y, i + 1, IF x[i] - Limb(y, i) - br < 0 THEN 1 ELSE 0)

BSub(x, y) == BTrim(BSubV(x, y, 1, 0))

RECURSIVE BCmpV(_, _, _)
BCmpV(x, y, i) ==
    IF i = 0 THEN 0
    ELSE IF x[i] /= y[i] THEN (IF x[i] < y[i] THEN -1 ELSE 1)
    ELSE BCmpV(x, y, i - 1)

\* -1, 0 or 1
BCmp(x, y) ==
    IF Len(x) /= Len(y) THEN (IF Len(x) < Len(y) THEN -1 ELSE 1)
    ELSE BCmpV(x, y, Len(x))

RECURSIVE BMulSmallV(_, _, _, _)
BMulSmallV(x, k, i, c) ==
    IF i > Len(x)
    THEN (IF c = 0 THEN <<>> ELSE <<c>>)
    ELSE <<(x[i] * k + c) % LimbBase>>
         \o BMulSmallV(x, k, i + 1, (x[i] * k + c) \div LimbBase)

\* x * k for a limb k
BMulSmall(x, k) == IF k = 0 THEN <<>> ELSE BMulSmallV(x, k, 1, 0)

RECURSIVE BMulV(_, _, _)
BMulV(x, y, j) ==
    IF j > Len(y) THEN <<>>
    ELSE BAdd(IF y[j] = 0 THEN <<>> ELSE Zeros(j - 1) \o BMulSmall(x, y[j]),
              BMulV(x, y, j + 1))

BMul(x, y) == BMulV(x, y, 1)

\* x * 2^n
BShl(x, n) ==
    IF x = <<>> THEN <<>>
    ELSE Zeros(n \div 15) \o BMulSmallV(x, 2^(n % 15), 1, 0)

\* x \div 2^n
BShr(x, n) ==
    LET r == n % 15
        d == SubSeq(x, (n \div 15) + 1, Len(x))
    IN  BTrim([i \in 1..Len(d) |->
                  (d[i] \div 2^r) + (Limb(d, i + 1) % 2^r) * 2^(15 - r)])

RECURSIVE BitLenSmall(_)
BitLenSmall(k) == IF k = 0 THEN 0 ELSE 1 + BitLenSmall(k \div 2)

\* the number of bits of x
BBitLen(x) == IF x = <<>> THEN 0 ELSE 15 * (Len(x) - 1) + BitLenSmall(x[Len(x)])

\* bit k of x (bit 0 is the least significant)
BBit(x, k) == (Limb(x, (k \div 15) + 1) \div 2^(k % 15)) % 2

\* some bit of x below bit k is set
BLowNonZero(x, k) ==
    \/ \E i \in 1..(k \div 15) : Limb(x, i) /= 0
    \/ Limb(x, (k \div 15) + 1) % 2^(k % 15) /= 0

\* sign * M * 2^e rounded to 53 bits, to nearest, ties to even
FRound(sign, M, e) ==
    CHOOSE r \in {
        IF m = <<>> \/ sign = 0
        THEN <<0, <<>>, 0>>
        ELSE IF k <= 0
        THEN <<sign, BShl(m, -k), e + k>>
        ELSE CHOOSE rr \in {
                IF BBit(m, k - 1) = 1 /\ (BLowNonZero(m, k - 1) \/ q[1] % 2 = 1)
                THEN (IF BBitLen(BAdd(q, <<1>>)) = 54
                      THEN <<sign, BShr(BAdd(q, <<1>>), 1), e + k + 1>>
                      ELSE <<sign, BAdd(q, <<1>>), e + k>>)
                ELSE <<sign, q, e + k>> :
                    q \in {BShr(m, k)}} : TRUE :
            m \in {M}, k \in {BBitLen(M) - 53}} : TRUE

\* n / 2^k for an integer n of at most 15 bits
FDyadic(n, k) ==
    FRound(IF n < 0 THEN -1 ELSE IF n = 0 THEN 0 ELSE 1,
           IF n = 0 THEN <<>> ELSE <<IF n < 0 THEN -n ELSE n>>, -k)

FNeg(x) == <<-x[1], x[2], x[3]>>
FAbs(x) == <<x[1] * x[1], x[2], x[3]>>

FAdd(a, b) ==
    CHOOSE r \in {
        IF x[1] = 0 THEN y
        ELSE IF y[1] = 0 THEN x
        ELSE CHOOSE rr \in {
                IF x[1] = y[1] THEN FRound(x[1], BAdd(m1, m2), emin)
                ELSE IF BCmp(m1, m2) = 0 THEN <<0, <<>>, 0>>
                ELSE IF BCmp(m1, m2) > 0 THEN FRound(x[1], BSub(m1, m2), emin)
                ELSE FRound(y[1], BSub(m2, m1), emin) :
                    emin \in {IF x[3] < y[3] THEN x[3] ELSE y[3]},
                    m1 \in {BShl(x[2], x[3] - (IF x[3] < y[3] THEN x[3] ELSE y[3]))},
                    m2 \in {BShl(y[2], y[3] - (IF x[3] < y[3] THEN x[3] ELSE y[3]))}} : TRUE :
            x \in {a}, y \in {b}} : TRUE

FSub(a, b) ==
    CHOOSE r \in {FAdd(a, FNeg(y)) : y \in {b}} : TRUE

FMul(a, b) ==
    CHOOSE r \in {
        IF x[1] = 0 \/ y[1] = 0 THEN <<0, <<>>, 0>>
        ELSE FRound(x[1] * y[1], BMul(x[2], y[2]), x[3] + y[3]) :
            x \in {a}, y \in {b}} : TRUE

\* bits is a list of bits, most significant first
RECURSIVE PackV(_, _, _)
PackV(bits, p, t) ==
    IF t = 15 \/ p + t >= Len(bits) THEN 0
    ELSE bits[Len(bits) - (p + t)] * 2^t + PackV(bits, p, t + 1)

BFromBits(bits) ==
    BTrim([i \in 1..((Len(bits) + 14) \div 15) |-> PackV(bits, 15 * (i - 1), 0)])

\* one more bit of the quotient of r / y, for r < y; st is <<bits, r>>
Div1(st, y) ==
    CHOOSE res \in {
        IF BCmp(r2, y) >= 0
        THEN <<Append(st[1], 1), BSub(r2, y)>>
        ELSE <<Append(st[1], 0), r2>> :
            r2 \in {BShl(st[2], 1)}} : TRUE

\* eight more bits
Div8(st, y) ==
    CHOOSE res \in {Div1(c7, y) :
        c7 \in {Div1(c6, y) :
        c6 \in {Div1(c5, y) :
        c5 \in {Div1(c4, y) :
        c4 \in {Div1(c3, y) :
        c3 \in {Div1(c2, y) :
        c2 \in {Div1(c1, y) :
        c1 \in {Div1(st, y)}}}}}}}} : TRUE

\* 56 more bits; returns <<bits, the remainder>>
Div56(r, y, bits) ==
    CHOOSE res \in {Div8(c6, y) :
        c6 \in {Div8(c5, y) :
        c5 \in {Div8(c4, y) :
        c4 \in {Div8(c3, y) :
        c3 \in {Div8(c2, y) :
        c2 \in {Div8(c1, y) :
        c1 \in {Div8(<<bits, r>>, y)}}}}}}} : TRUE

\* x / y for y /= 0: 57 bits of the quotient of the two significands and a
\* sticky bit for the remainder, rounded
FDiv(a, b) ==
    CHOOSE r \in {
        IF x[1] = 0 THEN <<0, <<>>, 0>>
        ELSE CHOOSE rr \in {
                FRound(x[1] * y[1],
                       BAdd(BShl(BFromBits(qr[1]), 1),
                            IF qr[2] /= <<>> THEN <<1>> ELSE <<>>),
                       x[3] - y[3] - 57) :
                    qr \in {IF BCmp(x[2], y[2]) >= 0
                            THEN Div56(BSub(x[2], y[2]), y[2], <<1>>)
                            ELSE Div56(x[2], y[2], <<0>>)}} : TRUE :
            x \in {a}, y \in {b}} : TRUE

\* a < b, a <= b
FLt(a, b) == FSub(a, b)[1] < 0
FLe(a, b) == FSub(a, b)[1] <= 0

\* the literal 1e-10: 0x1.b7cdfd9d7bdbbp-34
FEps == <<1, <<15803, 13231, 29567, 219>>, -86>>

\* _side_of_line on floats
f64_side_of_line(px, py, lx1, ly1, lx2, ly2) ==
    FSub(FMul(FSub(lx2, lx1), FSub(py, ly1)), FMul(FSub(ly2, ly1), FSub(px, lx1)))

\* _line_segment_intersection on floats
f64_line_segment_intersection(ax1, ay1, ax2, ay2, bx1, by1, bx2, by2) ==
    CHOOSE r \in {
        CHOOSE r1 \in {
            IF FLt(FAbs(denom), FEps)
            THEN None
            ELSE CHOOSE pt \in {
                    IF /\ FLe(FNeg(FEps), t) /\ FLe(t, FAdd(FDyadic(1, 0), FEps))
                       /\ FLe(FNeg(FEps), s) /\ FLe(s, FAdd(FDyadic(1, 0), FEps))
                    THEN <<FAdd(ax1, FMul(t, dax)), FAdd(ay1, FMul(t, day))>>
                    ELSE None :
                        t \in {FDiv(FSub(FMul(FSub(bx1, ax1), dby),
                                         FMul(FSub(by1, ay1), dbx)), denom)},
                        s \in {FDiv(FSub(FMul(FSub(bx1, ax1), day),
                                         FMul(FSub(by1, ay1), dax)), denom)}} : TRUE :
                denom \in {FSub(FMul(dax, dby), FMul(day, dbx))}} : TRUE :
            dax \in {FSub(ax2, ax1)}, day \in {FSub(ay2, ay1)},
            dbx \in {FSub(bx2, bx1)}, dby \in {FSub(by2, by1)}} : TRUE

\* f64_split_step looking for a crossing only on the edges that run from the
\* left of the line to its right
f64_split_step_one_way(polygon, lx1, ly1, lx2, ly2, i, acc) ==
    CHOOSE r \in {
        LET left1 == IF side_curr[1] >= 0 THEN Append(acc[1], curr) ELSE acc[1]
            right1 == IF side_curr[1] <= 0 THEN Append(acc[2], curr) ELSE acc[2]
            crosses == FLt(FEps, side_curr) /\ FLt(side_next, FNeg(FEps))
        IN  IF ~crosses
            THEN <<left1, right1>>
            ELSE CHOOSE r1 \in {
                    IF pt /= None
                    THEN <<Append(left1, pt), Append(right1, pt)>>
                    ELSE <<left1, right1>> :
                        pt \in {f64_line_segment_intersection(
                                    curr[1], curr[2], nxt[1], nxt[2],
                                    lx1, ly1, lx2, ly2)}} : TRUE :
            curr \in {polygon[i]},
            nxt \in {polygon[(i % Len(polygon)) + 1]},
            side_curr \in {f64_side_of_line(polygon[i][1], polygon[i][2],
                                            lx1, ly1, lx2, ly2)},
            side_next \in {f64_side_of_line(polygon[(i % Len(polygon)) + 1][1],
                                            polygon[(i % Len(polygon)) + 1][2],
                                            lx1, ly1, lx2, ly2)}} : TRUE

\* one iteration of the loop of _split_polygon on floats (lines 66-85)
f64_split_step(polygon, lx1, ly1, lx2, ly2, i, acc) ==
    CHOOSE r \in {
        LET left1 == IF side_curr[1] >= 0 THEN Append(acc[1], curr) ELSE acc[1]
            right1 == IF side_curr[1] <= 0 THEN Append(acc[2], curr) ELSE acc[2]
            crosses == \/ (FLt(FEps, side_curr) /\ FLt(side_next, FNeg(FEps)))
                       \/ (FLt(side_curr, FNeg(FEps)) /\ FLt(FEps, side_next))
        IN  IF ~crosses
            THEN <<left1, right1>>
            ELSE CHOOSE r1 \in {
                    IF pt /= None
                    THEN <<Append(left1, pt), Append(right1, pt)>>
                    ELSE <<left1, right1>> :
                        pt \in {f64_line_segment_intersection(
                                    curr[1], curr[2], nxt[1], nxt[2],
                                    lx1, ly1, lx2, ly2)}} : TRUE :
            curr \in {polygon[i]},
            nxt \in {polygon[(i % Len(polygon)) + 1]},
            side_curr \in {f64_side_of_line(polygon[i][1], polygon[i][2],
                                            lx1, ly1, lx2, ly2)},
            side_next \in {f64_side_of_line(polygon[(i % Len(polygon)) + 1][1],
                                            polygon[(i % Len(polygon)) + 1][2],
                                            lx1, ly1, lx2, ly2)}} : TRUE

RECURSIVE f64_split_loop(_, _, _, _, _, _, _)
f64_split_loop(polygon, lx1, ly1, lx2, ly2, i, acc) ==
    IF i > Len(polygon)
    THEN acc
    ELSE CHOOSE r \in {f64_split_loop(polygon, lx1, ly1, lx2, ly2, i + 1, acc1) :
                acc1 \in {f64_split_step(polygon, lx1, ly1, lx2, ly2, i, acc)}} : TRUE

\* _split_polygon on floats: returns <<left, right>>
f64_split_polygon(polygon, lx1, ly1, lx2, ly2) ==
    f64_split_loop(polygon, lx1, ly1, lx2, ly2, 1, <<<<>>, <<>>>>)

\* the loop of cut on floats: new_layers
RECURSIVE f64_cut_new_layers(_, _, _, _)
f64_cut_new_layers(ls, line_from, line_to, keep_side) ==
    IF ls = <<>>
    THEN <<>>
    ELSE (CHOOSE r \in {
            IF keep_side = "left" /\ lr[1] /= <<>> THEN <<lr[1]>>
            ELSE IF keep_side = "right" /\ lr[2] /= <<>> THEN <<lr[2]>>
            ELSE <<>> :
                lr \in {f64_split_polygon(Head(ls), line_from[1], line_from[2],
                                          line_to[1], line_to[2])}} : TRUE)
         \o f64_cut_new_layers(Tail(ls), line_from, line_to, keep_side)

\* PaperState.cut on float coordinates: the value of self.layers after the call
f64_cut(ls, line_from, line_to, keep_side) ==
    CHOOSE r \in {IF new_layers /= <<>> THEN new_layers ELSE ls :
                    new_layers \in {f64_cut_new_layers(ls, line_from, line_to,
                                                       keep_side)}} : TRUE

\* ------------------------------------------------------------------- inputs

MaxOps == 2

P(xn, xd, yn, yd) == <<Q(xn, xd), Q(yn, yd)>>

\* fold lines a caller may pass: <<line_from, line_to>>
Lines == {
    <<P(0,1, 1,2), P(1,1, 1,2)>>,     \* horizontal mid-line, left to right
    <<P(0,1, 1,2), P(1,2, 1,2)>>,     \* the same line, given by its left half
    <<P(0,1, 0,1), P(1,1, 1,1)>>,     \* diagonal
    <<P(0,1, 1,2), P(1,2, 0,1)>>,     \* corner fold
    <<P(0,1, 0,1), P(1,1, 1,2)>>,     \* slanted line through a corner
    <<P(0,1, 2,1), P(1,1, 2,1)>>,     \* line outside the paper
    <<P(1,2, 1,2), P(1,2, 1,2)>>      \* degenerate line: both endpoints coincide
}

FoldSides == {"bottom", "top", "left", "right"}
KeepSides == {"left", "right", "bottom"}
PaperSizes == {One}

NoOp == [type |-> "none", from |-> <<Zero, Zero>>, to |-> <<Zero, Zero>>, side |-> ""]

\* polygons passed to _split_polygon
Polygons == {
    <<P(0,1, 0,1), P(1,1, 0,1), P(1,1, 1,1), P(0,1, 1,1)>>,    \* the unit square
    <<P(0,1, 1,1), P(1,1, 1,1), P(1,1, 0,1), P(0,1, 0,1)>>,    \* the other winding
    <<P(0,1, 0,1), P(1,1, 0,1), P(0,1, 1,1)>>,                  \* a triangle
    <<P(0,1, 0,1), P(1,1, 0,1), P(1,1, 1,2), P(1,2, 1,2),
      P(1,2, 1,1), P(0,1, 1,1)>>                                \* an L shape
}

GridCoords == {Q(0, 1), Q(1, 2), Q(1, 1)}
GridPoints == GridCoords \X GridCoords

\* lines passed to _split_polygon: two distinct grid points
SplitLines == {ln \in GridPoints \X GridPoints : ln[1] /= ln[2]}

\* arguments of the geometry helpers called on their own: points on and off
\* the grid, lines and segments between any two grid points (coincident
\* endpoints included), the polygons above and the empty polygon
KernelPoints == GridPoints \cup {P(1,3, 2,1), P(-1,1, 3,2), P(3,4, -1,4)}
KernelLines == GridPoints \X GridPoints
KernelPolygons == Polygons \cup {<<>>}

\* layer lists of the states handed to render_step_svg on its own: a caller
\* may set PaperState.layers to any list, empty layers included
RenderLayerLists == {
    << <<P(0,1, 0,1), P(1,1, 0,1), P(1,1, 1,1), P(0,1, 1,1)>> >>,
    << <<P(0,1, 0,1), P(1,1, 0,1), P(1,1, 1,1), P(0,1, 1,1)>>, <<>> >>,
    << <<>>, <<P(0,1, 0,1), P(1,1, 1,1), P(0,1, 1,1)>> >>,
    << <<P(0,1, 0,1), P(0,1, 1,1), P(1,1, 1,1)>>,
       <<P(0,1, 0,1), P(1,1, 1,1), P(0,1, 1,1)>> >>,
    << <<>> >>,
    <<>>
}

\* fold_line (None when omitted), fold_type and action_label of such a call
RenderOps == {
    [fold_line |-> <<P(0,1, 1,2), P(1,1, 1,2)>>, fold_type |-> "valley_fold",
     action_label |-> "Presavij"],
    [fold_line |-> <<P(0,1, 0,1), P(1,1, 1,1)>>, fold_type |-> "mountain_fold",
     action_label |-> ""],
    [fold_line |-> None, fold_type |-> "cut", action_label |-> "cut"]
}

MaxTutorial == 3
MaxCloneOps == 2

\* the fold lines, fold sides and keep sides used on s and its clone
CloneLines == {
    <<P(0,1, 1,2), P(1,1, 1,2)>>,
    <<P(0,1, 0,1), P(1,1, 1,1)>>,
    <<P(0,1, 2,1), P(1,1, 2,1)>>
}
CloneFoldSides == {"bottom", "top"}
CloneKeepSides == {"left", "right"}

HalfQ == Q(1, 2)

\* operation descriptors as the upstream model may send them
Descriptors == {
    [type |-> "valley_fold", fold_line |-> <<<<Zero, Zero>>, <<One, One>>>>,
     fold_side |-> "right", label |-> "Presavij dijagonalno"],
    [type |-> "mountain_fold", fold_line |-> <<<<Zero, HalfQ>>, <<HalfQ, Zero>>>>,
     fold_side |-> "top", label |-> "Presavij ugao"],
    [type |-> "cut", fold_line |-> <<<<Zero, HalfQ>>, <<One, HalfQ>>>>,
     keep_side |-> "left", label |-> "cut"],
    [label |-> "defaults"],
    [type |-> "flip", label |-> "flip"],
    [type |-> "valley_fold", fold_line |-> <<<<Zero, HalfQ>>>>, label |-> "one point"],
    [type |-> "cut", fold_line |-> <<<<None, Zero>>, <<One, One>>>>, label |-> "null"],
    [type |-> "cut", keep_side |-> "right", label |-> "1 < 2 & 3"]
}

\* lists of at most n descriptors
RECURSIVE OpLists(_)
OpLists(n) ==
    IF n = 0 THEN {<<>>}
    ELSE LET shorter == OpLists(n - 1)
         IN  shorter \cup {Append(l, d) : l \in {x \in shorter : Len(x) = n - 1},
                                          d \in Descriptors}

\* ------------------------------------------------------------ specification

InitPaper ==
    /\ size \in PaperSizes
    /\ layers = initial_layers(size)
    /\ before = layers
    /\ last = NoOp
    /\ nops = 0

\* the split under test is not part of this specification
IdleSplit ==
    /\ sp_polygon = <<>>
    /\ sp_line = <<>>
    /\ sp_out = None

\* no tutorial is being built in this specification
IdleBuild ==
    /\ fold_ops = <<>>
    /\ bi = 1
    /\ paper = <<>>
    /\ svgs = <<>>
    /\ bpc = "idle"
    /\ result = None
    /\ prev_results = <<>>

\* no heap object exists in this specification
IdleClone ==
    /\ heap = <<>>
    /\ s_obj = NoObj
    /\ c_obj = NoObj
    /\ cl_last = "none"
    /\ cl_prev = <<None, None>>
    /\ cl_n = 0

\* no geometry helper is called on its own in this specification
IdleKernel ==
    /\ k_fn = "none"
    /\ k_args = <<>>
    /\ k_ret = None
    /\ k_back = None

\* render_step_svg is not called on its own in this specification
IdleRender ==
    /\ r_before = <<>>
    /\ r_after = <<>>
    /\ r_op = <<>>
    /\ r_out = None

\* no operation of the paper is stepped through in this specification
IdleAtomic ==
    /\ a_new = <<>>
    /\ a_i = 1
    /\ a_pc = "idle"

\* no concurrent calls in this specification
IdleConc ==
    /\ t_objs = <<>>
    /\ t_ops = <<>>
    /\ t_pc = <<>>
    /\ t_bi = <<>>
    /\ t_paper = <<>>
    /\ t_before = <<>>
    /\ t_svgs = <<>>

\* nothing is computed in binary64 in this specification
IdleFloat ==
    /\ f_polygon = <<>>
    /\ f_line = <<>>
    /\ f_side = ""
    /\ f_split = None
    /\ f_layers = <<>>

IdleMore == IdleAtomic /\ IdleConc /\ IdleFloat

Init == InitPaper /\ IdleSplit /\ IdleBuild /\ IdleClone /\ IdleKernel /\ IdleRender
        /\ IdleMore

ValleyFold ==
    /\ nops < MaxOps
    /\ \E ln \in Lines, sd \in FoldSides :
        /\ layers' = valley_fold(layers, ln[1], ln[2], sd)
        /\ last' = [type |-> "valley_fold", from |-> ln[1], to |-> ln[2], side |-> sd]
    /\ before' = layers
    /\ nops' = nops + 1
    /\ UNCHANGED size
    /\ UNCHANGED <<splitVars, buildVars, cloneVars, kernelVars, renderVars,
                   atomVars, concVars, floatVars>>

MountainFold ==
    /\ nops < MaxOps
    /\ \E ln \in Lines, sd \in FoldSides :
        /\ layers' = mountain_fold(layers, ln[1], ln[2], sd)
        /\ last' = [type |-> "mountain_fold", from |-> ln[1], to |-> ln[2], side |-> sd]
    /\ before' = layers
    /\ nops' = nops + 1
    /\ UNCHANGED size
    /\ UNCHANGED <<splitVars, buildVars, cloneVars, kernelVars, renderVars,
                   atomVars, concVars, floatVars>>

Cut ==
    /\ nops < MaxOps
    /\ \E ln \in Lines, sd \in KeepSides :
        /\ layers' = cut(layers, ln[1], ln[2], sd)
        /\ last' = [type |-> "cut", from |-> ln[1], to |-> ln[2], side |-> sd]
    /\ before' = layers
    /\ nops' = nops + 1
    /\ UNCHANGED size
    /\ UNCHANGED <<splitVars, buildVars, cloneVars, kernelVars, renderVars,
                   atomVars, concVars, floatVars>>

Next == ValleyFold \/ MountainFold \/ Cut

Spec == Init /\ [][Next]_vars

\* ---- _split_polygon alone, on every polygon of Polygons and line of SplitLines

InitSplit ==
    /\ sp_polygon \in Polygons
    /\ sp_line \in SplitLines
    /\ sp_out = None
    /\ size = One
    /\ layers = initial_layers(size)
    /\ before = layers
    /\ last = NoOp
    /\ nops = 0
    /\ IdleBuild
    /\ IdleClone
    /\ IdleKernel
    /\ IdleRender
    /\ IdleMore

SplitCall ==
    /\ sp_out = None
    /\ sp_out' = split_polygon(sp_polygon, sp_line[1][1], sp_line[1][2],
                                sp_line[2][1], sp_line[2][2])
    /\ UNCHANGED <<sp_polygon, sp_line>>
    /\ UNCHANGED <<paperVars, buildVars, cloneVars, kernelVars, renderVars,
                   atomVars, concVars, floatVars>>

NextSplit == SplitCall

SpecSplit == InitSplit /\ [][NextSplit]_vars

\* ---- build_tutorial_svgs(fold_ops, paper_size), one loop iteration per step

InitBuild ==
    /\ fold_ops \in OpLists(MaxTutorial)
    /\ size \in PaperSizes
    /\ bi = 1
    /\ paper = initial_layers(size)
    /\ svgs = <<>>
    /\ bpc = "loop"
    /\ result = None
    /\ prev_results = <<>>
    /\ layers = initial_layers(size)
    /\ before = layers
    /\ last = NoOp
    /\ nops = 0
    /\ IdleSplit
    /\ IdleClone
    /\ IdleKernel
    /\ IdleRender
    /\ IdleMore

\* BuildStep with a `continue` for the operation types that move no paper
BuildStepSkipUnknown ==
    /\ bpc = "loop"
    /\ bi <= Len(fold_ops)
    /\ op_usable(fold_ops[bi])
    /\ \E after \in {apply_op(paper, fold_ops[bi])} :
        /\ paper' = after
        /\ svgs' = IF get(fold_ops[bi], "type", "valley_fold")
                        \in {"valley_fold", "mountain_fold", "cut"}
                   THEN Append(svgs, op_svg(paper, after, size, fold_ops[bi]))
                   ELSE svgs
    /\ bi' = bi + 1
    /\ UNCHANGED <<fold_ops, bpc, result, prev_results>>
    /\ UNCHANGED <<paperVars, splitVars, cloneVars, kernelVars, renderVars,
                   atomVars, concVars, floatVars>>

\* one iteration of the loop that completes: lines 307-334
BuildStep ==
    /\ bpc = "loop"
    /\ bi <= Len(fold_ops)
    /\ op_usable(fold_ops[bi])
    /\ \E after \in {apply_op(paper, fold_ops[bi])} :
        /\ paper' = after
        /\ svgs' = Append(svgs, op_svg(paper, after, size, fold_ops[bi]))
    /\ bi' = bi + 1
    /\ UNCHANGED <<fold_ops, bpc, result, prev_results>>
    /\ UNCHANGED <<paperVars, splitVars, cloneVars, kernelVars, renderVars,
                   atomVars, concVars, floatVars>>

\* one iteration that raises (IndexError, TypeError): nothing catches it, the
\* exception leaves build_tutorial_svgs and the caller receives no list
BuildRaise ==
    /\ bpc = "loop"
    /\ bi <= Len(fold_ops)
    /\ ~op_usable(fold_ops[bi])
    /\ bpc' = "raised"
    /\ UNCHANGED <<fold_ops, bi, paper, svgs, result, prev_results>>
    /\ UNCHANGED <<paperVars, splitVars, cloneVars, kernelVars, renderVars,
                   atomVars, concVars, floatVars>>

\* line 336: return svgs
BuildReturn ==
    /\ bpc = "loop"
    /\ bi > Len(fold_ops)
    /\ bpc' = "done"
    /\ result' = svgs
    /\ UNCHANGED <<fold_ops, bi, paper, svgs, prev_results>>
    /\ UNCHANGED <<paperVars, splitVars, cloneVars, kernelVars, renderVars,
                   atomVars, concVars, floatVars>>

\* BuildAgain with paper kept between calls (a module-level paper)
BuildAgainKeepPaper ==
    /\ bpc = "done"
    /\ prev_results = <<>>
    /\ prev_results' = <<result>>
    /\ svgs' = <<>>
    /\ bi' = 1
    /\ bpc' = "loop"
    /\ result' = None
    /\ UNCHANGED <<fold_ops, paper>>
    /\ UNCHANGED <<paperVars, splitVars, cloneVars, kernelVars, renderVars,
                   atomVars, concVars, floatVars>>

\* a second call build_tutorial_svgs(fold_ops, paper_size) with the same
\* arguments: lines 303-304 make its paper and its svgs anew
BuildAgain ==
    /\ bpc = "done"
    /\ prev_results = <<>>
    /\ prev_results' = <<result>>
    /\ paper' = initial_layers(size)
    /\ svgs' = <<>>
    /\ bi' = 1
    /\ bpc' = "loop"
    /\ result' = None
    /\ UNCHANGED fold_ops
    /\ UNCHANGED <<paperVars, splitVars, cloneVars, kernelVars, renderVars,
                   atomVars, concVars, floatVars>>

NextBuild == BuildStep \/ BuildRaise \/ BuildReturn \/ BuildAgain

SpecBuild == InitBuild /\ [][NextBuild]_vars

\* ---- the geometry helpers called on their own, one call per behaviour (and
\* ---- _reflect_point once more on its own result)

InitKernel ==
    /\ IdleKernel
    /\ InitPaper
    /\ IdleSplit
    /\ IdleBuild
    /\ IdleClone
    /\ IdleRender
    /\ IdleMore

ReflectCall ==
    /\ k_fn = "none"
    /\ \E p \in KernelPoints, ln \in KernelLines :
        /\ k_args' = <<p, ln>>
        /\ k_ret' = reflect_point(p[1], p[2], ln[1][1], ln[1][2], ln[2][1], ln[2][2])
    /\ k_fn' = "reflect"
    /\ UNCHANGED k_back
    /\ UNCHANGED <<paperVars, splitVars, buildVars, cloneVars, renderVars,
                   atomVars, concVars, floatVars>>

\* _reflect_point(*k_ret, same line)
ReflectBack ==
    /\ k_fn = "reflect"
    /\ k_back = None
    /\ k_back' = reflect_point(k_ret[1], k_ret[2], k_args[2][1][1], k_args[2][1][2],
                                k_args[2][2][1], k_args[2][2][2])
    /\ UNCHANGED <<k_fn, k_args, k_ret>>
    /\ UNCHANGED <<paperVars, splitVars, buildVars, cloneVars, renderVars,
                   atomVars, concVars, floatVars>>

SideCall ==
    /\ k_fn = "none"
    /\ \E p \in KernelPoints, ln \in KernelLines :
        /\ k_args' = <<p, ln>>
        /\ k_ret' = side_of_line(p[1], p[2], ln[1][1], ln[1][2], ln[2][1], ln[2][2])
    /\ k_fn' = "side"
    /\ UNCHANGED k_back
    /\ UNCHANGED <<paperVars, splitVars, buildVars, cloneVars, renderVars,
                   atomVars, concVars, floatVars>>

IntersectCall ==
    /\ k_fn = "none"
    /\ \E a \in KernelLines, b \in KernelLines :
        /\ k_args' = <<a, b>>
        /\ k_ret' = line_segment_intersection(a[1][1], a[1][2], a[2][1], a[2][2],
                                               b[1][1], b[1][2], b[2][1], b[2][2])
    /\ k_fn' = "intersect"
    /\ UNCHANGED k_back
    /\ UNCHANGED <<paperVars, splitVars, buildVars, cloneVars, renderVars,
                   atomVars, concVars, floatVars>>

KernelSplitCall ==
    /\ k_fn = "none"
    /\ \E polygon \in KernelPolygons, ln \in KernelLines :
        /\ k_args' = <<polygon, ln>>
        /\ k_ret' = split_polygon(polygon, ln[1][1], ln[1][2], ln[2][1], ln[2][2])
    /\ k_fn' = "split"
    /\ UNCHANGED k_back
    /\ UNCHANGED <<paperVars, splitVars, buildVars, cloneVars, renderVars,
                   atomVars, concVars, floatVars>>

NextKernel == ReflectCall \/ ReflectBack \/ SideCall \/ IntersectCall \/ KernelSplitCall

SpecKernel == InitKernel /\ [][NextKernel]_vars

\* ---- render_step_svg called on its own, on any before and after state

InitRender ==
    /\ r_before \in RenderLayerLists
    /\ r_after \in RenderLayerLists
    /\ r_op \in RenderOps
    /\ r_out = None
    /\ InitPaper
    /\ IdleSplit
    /\ IdleBuild
    /\ IdleClone
    /\ IdleKernel
    /\ IdleMore

RenderCall ==
    /\ r_out = None
    /\ r_out' = render_step_svg(r_before, r_after, size, r_op.fold_line,
                                r_op.fold_type, r_op.action_label)
    /\ UNCHANGED <<r_before, r_after, r_op>>
    /\ UNCHANGED <<paperVars, splitVars, buildVars, cloneVars, kernelVars,
                   atomVars, concVars, floatVars>>

NextRender == RenderCall

SpecRender == InitRender /\ [][NextRender]_vars

\* ---- a PaperState s and its clone c, as objects on the heap

InitClone ==
    /\ heap = <<[kind |-> "polygon", items |-> initial_layers(One)[1]],
                [kind |-> "layers", items |-> <<1>>]>>
    /\ s_obj = [layers |-> 2, size |-> One]
    /\ c_obj = NoObj
    /\ cl_last = "none"
    /\ cl_prev = <<None, None>>
    /\ cl_n = 0
    /\ InitPaper
    /\ IdleSplit
    /\ IdleBuild
    /\ IdleKernel
    /\ IdleRender
    /\ IdleMore

\* the call `which`.op(...) that computes new_layers: s for "s", c for "c"
HeapAssign(which, new_layers) ==
    /\ cl_prev' = <<LayersOf(heap, s_obj), LayersOf(heap, c_obj)>>
    /\ cl_last' = which
    /\ cl_n' = cl_n + 1
    /\ \E st \in {assign_layers(heap, IF which = "s" THEN s_obj ELSE c_obj, new_layers)} :
        /\ heap' = st[1]
        /\ s_obj' = IF which = "s" THEN st[2] ELSE s_obj
        /\ c_obj' = IF which = "c" THEN st[2] ELSE c_obj
    /\ UNCHANGED <<paperVars, splitVars, buildVars, kernelVars, renderVars,
                   atomVars, concVars, floatVars>>

\* the objects an operation can be called on
Targets == {"s"} \cup (IF c_obj /= NoObj THEN {"c"} ELSE {})
LayersOfTarget(which) == LayersOf(heap, IF which = "s" THEN s_obj ELSE c_obj)

\* c = s.clone()
CloneCall ==
    /\ c_obj = NoObj
    /\ cl_prev' = <<LayersOf(heap, s_obj), None>>
    /\ cl_last' = "clone"
    /\ \E st \in {heap_clone(heap, s_obj)} :
        /\ heap' = st[1]
        /\ c_obj' = st[2]
    /\ UNCHANGED <<s_obj, cl_n>>
    /\ UNCHANGED <<paperVars, splitVars, buildVars, kernelVars, renderVars,
                   atomVars, concVars, floatVars>>

HeapValleyFold ==
    /\ cl_n < MaxCloneOps
    /\ \E which \in Targets, ln \in CloneLines, sd \in CloneFoldSides :
        HeapAssign(which, fold_new_layers(LayersOfTarget(which), ln[1], ln[2], sd))

\* mountain_fold calls self.valley_fold
HeapMountainFold ==
    /\ cl_n < MaxCloneOps
    /\ \E which \in Targets, ln \in CloneLines, sd \in CloneFoldSides :
        HeapAssign(which, fold_new_layers(LayersOfTarget(which), ln[1], ln[2], sd))

HeapCut ==
    /\ cl_n < MaxCloneOps
    /\ \E which \in Targets, ln \in CloneLines, sd \in CloneKeepSides :
        HeapAssign(which, cut_new_layers(LayersOfTarget(which), ln[1], ln[2], sd))

NextClone == CloneCall \/ HeapValleyFold \/ HeapMountainFold \/ HeapCut

SpecClone == InitClone /\ [][NextClone]_vars

\* ---- valley_fold, mountain_fold and cut stepped through: one action for the
\* ---- lines ahead of the loop, one per iteration, one for the assignment

MaxAtomicOps == 2

\* line_from, line_to as a caller may pass them: three lines, a point of one
\* coordinate (the unpacking of line 113 / 143 raises ValueError) and a None
\* coordinate (_side_of_line raises TypeError)
AtomicLines == {
    <<P(0,1, 1,2), P(1,2, 0,1)>>,
    <<P(3,4, 0,1), P(3,4, 1,1)>>,
    <<P(0,1, 1,2), P(1,1, 1,2)>>,
    <<<<Zero>>, P(1,1, 1,2)>>,
    <<<<None, Zero>>, P(1,1, 1,1)>>
}
AtomicTypes == {"valley_fold", "mountain_fold", "cut"}
AtomicSides(type) == IF type = "cut" THEN {"left", "right"} ELSE {"bottom", "top"}

InitAtomic ==
    /\ InitPaper
    /\ IdleAtomic
    /\ IdleSplit
    /\ IdleBuild
    /\ IdleClone
    /\ IdleKernel
    /\ IdleRender
    /\ IdleConc
    /\ IdleFloat

\* lines 113-115 (143-145 for cut; mountain_fold passes its arguments on):
\* the two points are unpacked and new_layers is the empty list
AtomicCall ==
    /\ a_pc /= "loop"
    /\ nops < MaxAtomicOps
    /\ \E type \in AtomicTypes, ln \in AtomicLines :
        \E sd \in AtomicSides(type) :
            /\ last' = [type |-> type, from |-> ln[1], to |-> ln[2], side |-> sd]
            /\ a_pc' = IF Len(ln[1]) = 2 /\ Len(ln[2]) = 2 THEN "loop" ELSE "raised"
    /\ before' = layers
    /\ a_new' = <<>>
    /\ a_i' = 1
    /\ nops' = nops + 1
    /\ UNCHANGED <<layers, size>>
    /\ UNCHANGED <<splitVars, buildVars, cloneVars, kernelVars, renderVars,
                   concVars, floatVars>>

\* the coordinates of the line in progress are numbers
AtomicNumeric ==
    /\ last.from[1] /= None
    /\ last.from[2] /= None
    /\ last.to[1] /= None
    /\ last.to[2] /= None

\* AtomicLayer writing the first piece of the layer back into self.layers
\* while the loop runs
AtomicLayerInPlace ==
    /\ a_pc = "loop"
    /\ a_i <= Len(layers)
    /\ AtomicNumeric
    /\ \E pieces \in {IF last.type = "cut"
                        THEN cut_pieces(layers[a_i], last.from, last.to, last.side)
                        ELSE fold_pieces(layers[a_i], last.from, last.to, last.side)} :
        /\ a_new' = a_new \o pieces
        /\ layers' = IF pieces = <<>> THEN layers
                     ELSE [layers EXCEPT ![a_i] = pieces[1]]
    /\ a_i' = a_i + 1
    /\ UNCHANGED <<size, before, last, nops, a_pc>>
    /\ UNCHANGED <<splitVars, buildVars, cloneVars, kernelVars, renderVars,
                   concVars, floatVars>>

\* one iteration of the loop, lines 117-133 (145-150 for cut): the pieces of
\* the layer are appended to the local new_layers
AtomicLayer ==
    /\ a_pc = "loop"
    /\ a_i <= Len(layers)
    /\ AtomicNumeric
    /\ \E pieces \in {IF last.type = "cut"
                        THEN cut_pieces(layers[a_i], last.from, last.to, last.side)
                        ELSE fold_pieces(layers[a_i], last.from, last.to, last.side)} :
        a_new' = a_new \o pieces
    /\ a_i' = a_i + 1
    /\ UNCHANGED <<paperVars, a_pc>>
    /\ UNCHANGED <<splitVars, buildVars, cloneVars, kernelVars, renderVars,
                   concVars, floatVars>>

\* an iteration in which _split_polygon raises: the exception leaves the
\* method, the locals are dropped
AtomicRaise ==
    /\ a_pc = "loop"
    /\ a_i <= Len(layers)
    /\ ~AtomicNumeric
    /\ a_pc' = "raised"
    /\ UNCHANGED <<paperVars, a_new, a_i>>
    /\ UNCHANGED <<splitVars, buildVars, cloneVars, kernelVars, renderVars,
                   concVars, floatVars>>

\* line 135 (152 for cut): self.layers = new_layers if new_layers else self.layers
AtomicAssign ==
    /\ a_pc = "loop"
    /\ a_i > Len(layers)
    /\ layers' = IF a_new /= <<>> THEN a_new ELSE layers
    /\ a_pc' = "returned"
    /\ UNCHANGED <<size, before, last, nops, a_new, a_i>>
    /\ UNCHANGED <<splitVars, buildVars, cloneVars, kernelVars, renderVars,
                   concVars, floatVars>>

NextAtomic == AtomicCall \/ AtomicLayer \/ AtomicRaise \/ AtomicAssign

SpecAtomic == InitAtomic /\ [][NextAtomic]_vars

\* ---- two build_tutorial_svgs calls running concurrently: each iteration in
\* ---- two steps (up to the operation, from the second snapshot on), the
\* ---- steps of the two calls interleaved in any order

MaxConcOps == 2
Invocations == {1, 2}

ConcDescriptors == {
    [type |-> "valley_fold", fold_line |-> <<<<Zero, Zero>>, <<One, One>>>>,
     fold_side |-> "right", label |-> "Presavij dijagonalno"],
    [type |-> "cut", fold_line |-> <<<<Zero, HalfQ>>, <<One, HalfQ>>>>,
     keep_side |-> "left", label |-> "cut"]
}

\* lists of at most n of these descriptors
RECURSIVE ConcOpLists(_)
ConcOpLists(n) ==
    IF n = 0 THEN {<<>>}
    ELSE LET shorter == ConcOpLists(n - 1)
         IN  shorter \cup {Append(l, d) : l \in {x \in shorter : Len(x) = n - 1},
                                          d \in ConcDescriptors}

InitConc ==
    /\ t_ops \in [Invocations -> ConcOpLists(MaxConcOps)]
    /\ t_pc = [i \in Invocations |-> "idle"]
    /\ t_bi = [i \in Invocations |-> 1]
    /\ t_paper = [i \in Invocations |-> 0]
    /\ t_before = [i \in Invocations |-> <<>>]
    /\ t_svgs = [i \in Invocations |-> <<>>]
    /\ t_objs = <<>>
    /\ InitPaper
    /\ IdleSplit
    /\ IdleBuild
    /\ IdleClone
    /\ IdleKernel
    /\ IdleRender
    /\ IdleAtomic
    /\ IdleFloat

\* ConcStart with one paper object for all calls (a module-level PaperState
\* made by the first call and used by every later one)
ConcStartShared(i) ==
    /\ t_pc[i] = "idle"
    /\ t_objs' = IF t_objs = <<>> THEN <<initial_layers(size)>> ELSE t_objs
    /\ t_paper' = [t_paper EXCEPT ![i] = 1]
    /\ t_svgs' = [t_svgs EXCEPT ![i] = <<>>]
    /\ t_pc' = [t_pc EXCEPT ![i] = "loop"]
    /\ UNCHANGED <<t_ops, t_bi, t_before>>
    /\ UNCHANGED <<paperVars, splitVars, buildVars, cloneVars, kernelVars, renderVars,
                   atomVars, floatVars>>

\* lines 303-304: paper = PaperState(paper_size), a new object; svgs = []
ConcStart(i) ==
    /\ t_pc[i] = "idle"
    /\ t_objs' = Append(t_objs, initial_layers(size))
    /\ t_paper' = [t_paper EXCEPT ![i] = Len(t_objs) + 1]
    /\ t_svgs' = [t_svgs EXCEPT ![i] = <<>>]
    /\ t_pc' = [t_pc EXCEPT ![i] = "loop"]
    /\ UNCHANGED <<t_ops, t_bi, t_before>>
    /\ UNCHANGED <<paperVars, splitVars, buildVars, cloneVars, kernelVars, renderVars,
                   atomVars, floatVars>>

\* lines 306-323: before = paper.clone(), then the operation on paper
ConcApply(i) ==
    /\ t_pc[i] = "loop"
    /\ t_bi[i] <= Len(t_ops[i])
    /\ t_before' = [t_before EXCEPT ![i] = clone(t_objs[t_paper[i]])]
    /\ t_objs' = [t_objs EXCEPT ![t_paper[i]] = apply_op(@, t_ops[i][t_bi[i]])]
    /\ t_pc' = [t_pc EXCEPT ![i] = "applied"]
    /\ UNCHANGED <<t_ops, t_bi, t_paper, t_svgs>>
    /\ UNCHANGED <<paperVars, splitVars, buildVars, cloneVars, kernelVars, renderVars,
                   atomVars, floatVars>>

\* lines 325-334: after = paper.clone(), the diagram is rendered and appended
ConcRender(i) ==
    /\ t_pc[i] = "applied"
    /\ \E op \in {t_ops[i][t_bi[i]]} :
        t_svgs' = [t_svgs EXCEPT ![i] =
                      Append(@, render_step_svg(t_before[i], clone(t_objs[t_paper[i]]),
                                                size, op_fold_line(op),
                                                get(op, "type", "valley_fold"),
                                                get(op, "label", "")))]
    /\ t_bi' = [t_bi EXCEPT ![i] = @ + 1]
    /\ t_pc' = [t_pc EXCEPT ![i] = "loop"]
    /\ UNCHANGED <<t_ops, t_paper, t_before, t_objs>>
    /\ UNCHANGED <<paperVars, splitVars, buildVars, cloneVars, kernelVars, renderVars,
                   atomVars, floatVars>>

\* line 336: return svgs
ConcReturn(i) ==
    /\ t_pc[i] = "loop"
    /\ t_bi[i] > Len(t_ops[i])
    /\ t_pc' = [t_pc EXCEPT ![i] = "done"]
    /\ UNCHANGED <<t_ops, t_bi, t_paper, t_before, t_svgs, t_objs>>
    /\ UNCHANGED <<paperVars, splitVars, buildVars, cloneVars, kernelVars, renderVars,
                   atomVars, floatVars>>

NextConc ==
    \E i \in Invocations :
        ConcStart(i) \/ ConcApply(i) \/ ConcRender(i) \/ ConcReturn(i)

SpecConc == InitConc /\ [][NextConc]_vars

\* ---- _split_polygon and PaperState.cut on binary64 coordinates: a polygon
\* ---- is split in both windings, and cut along the same line repeatedly

MaxFloatCuts == 2

\* the point (xn / 2^xk, yn / 2^yk)
FPt(xn, xk, yn, yk) == <<FDyadic(xn, xk), FDyadic(yn, yk)>>

\* the initial square of PaperState(1.0), and a triangle
FloatPolygons == {
    <<FPt(0,0, 0,0), FPt(1,0, 0,0), FPt(1,0, 1,0), FPt(0,0, 1,0)>>,
    <<FPt(0,0, 0,0), FPt(1,0, 0,0), FPt(1,2, 3,2)>>
}

\* the directed lines through two of six points
FloatLines ==
    {ln \in {FPt(-1,2, 1,2), FPt(1,1, 0,0), FPt(0,0, 1,1), FPt(1,0, 1,1),
             FPt(0,0, 0,0), FPt(1,0, 1,0)}
            \X {FPt(-1,2, 1,2), FPt(1,1, 0,0), FPt(0,0, 1,1), FPt(1,0, 1,1),
                FPt(0,0, 0,0), FPt(1,0, 1,0)} : ln[1] /= ln[2]}

InitFloat ==
    /\ f_polygon \in FloatPolygons
    /\ f_line \in FloatLines
    /\ f_side \in {"left", "right"}
    /\ f_split = None
    /\ f_layers = <<>>
    /\ InitPaper
    /\ IdleSplit
    /\ IdleBuild
    /\ IdleClone
    /\ IdleKernel
    /\ IdleRender
    /\ IdleAtomic
    /\ IdleConc

\* _split_polygon(polygon, ...) and _split_polygon(polygon[::-1], ...)
FloatSplit ==
    /\ f_split = None
    /\ f_split' = <<f64_split_polygon(f_polygon, f_line[1][1], f_line[1][2],
                                      f_line[2][1], f_line[2][2]),
                    f64_split_polygon([k \in 1..Len(f_polygon) |->
                                          f_polygon[Len(f_polygon) + 1 - k]],
                                      f_line[1][1], f_line[1][2],
                                      f_line[2][1], f_line[2][2])>>
    /\ UNCHANGED <<f_polygon, f_line, f_side, f_layers>>
    /\ UNCHANGED <<paperVars, splitVars, buildVars, cloneVars, kernelVars, renderVars,
                   atomVars, concVars>>

\* cut(line_from, line_to, keep_side) on the paper whose one layer is the
\* polygon, and again on what the cut before left
FloatCut ==
    /\ Len(f_layers) < MaxFloatCuts
    /\ f_layers' = Append(f_layers,
                          f64_cut(IF f_layers = <<>> THEN <<f_polygon>>
                                  ELSE f_layers[Len(f_layers)],
                                  f_line[1], f_line[2], f_side))
    /\ UNCHANGED <<f_polygon, f_line, f_side, f_split>>
    /\ UNCHANGED <<paperVars, splitVars, buildVars, cloneVars, kernelVars, renderVars,
                   atomVars, concVars>>

NextFloat == FloatSplit \/ FloatCut

SpecFloat == InitFloat /\ [][NextFloat]_vars

\* ------------------------------------------------------------------- claims

UnitSquare == initial_layers(One)
MidFrom == P(0,1, 1,2)
MidTo == P(1,1, 1,2)

\* the rectangle 0 <= x <= 1, 0 <= y <= 1/2 as the spec lists it
TopHalf == <<P(0,1, 0,1), P(1,1, 0,1), P(1,1, 1,2), P(0,1, 1,2)>>
\* the half 1/2 <= y <= 1 as split_polygon emits it (left of the mid-line)
LeftOfMid == <<P(1,1, 1,2), P(1,1, 1,1), P(0,1, 1,1), P(0,1, 1,2)>>
\* the half y <= 1/2 reflected across the mid-line
ReflectedRightOfMid == <<P(0,1, 1,1), P(1,1, 1,1), P(1,1, 1,2), P(0,1, 1,2)>>

VertexSet(poly) == {poly[k] : k \in 1..Len(poly)}
Called == last.type /= "none"
LastSide(p) == side_of_line(p[1], p[2], last.from[1], last.from[2], last.to[1], last.to[2])
VerticesOf(ls) == UNION {VertexSet(ls[i]) : i \in 1..Len(ls)}

C1_Case ==
    /\ last = [type |-> "valley_fold", from |-> MidFrom, to |-> MidTo, side |-> "bottom"]
    /\ before = UnitSquare

\* C1 as stated: the mid-line valley fold with side 'bottom' of the unit square
\* gives 2 layers of at most 4 vertices, both on the rectangle
\* (0,0),(1,0),(1,0.5),(0,0.5).
C1_Original ==
    C1_Case =>
        /\ Len(layers) = 2
        /\ \A i \in 1..Len(layers) :
            Len(layers[i]) <= 4 /\ VertexSet(layers[i]) = VertexSet(TopHalf)

\* C1 amended: the mid-line valley fold with side 'bottom' of the unit square
\* gives exactly 2 layers of 4 vertices: first the piece y <= 0.5 (right of the
\* line) reflected to (0,1),(1,1),(1,0.5),(0,0.5), then the stationary piece
\* (1,0.5),(1,1),(0,1),(0,0.5); both lie on the rectangle 0.5 <= y <= 1.
C1_FoldMidline ==
    C1_Case =>
        /\ layers = <<ReflectedRightOfMid, LeftOfMid>>
        /\ \A i \in 1..Len(layers) :
            Len(layers[i]) <= 4 /\ VertexSet(layers[i]) = VertexSet(LeftOfMid)

C1_Witness == C1_Case /\ Len(layers) = 2

C2_Case ==
    /\ last = [type |-> "cut", from |-> MidFrom, to |-> MidTo, side |-> "left"]
    /\ before = UnitSquare

\* C2 as stated: the mid-line cut with keep_side 'left' of the unit square leaves
\* one layer, the rectangle (0,0),(1,0),(1,0.5),(0,0.5).
C2_Original ==
    C2_Case => Len(layers) = 1 /\ VertexSet(layers[1]) = VertexSet(TopHalf)

\* C2 amended: the mid-line cut with keep_side 'left' of the unit square leaves
\* exactly one layer, the half left of the line (side >= 0, that is y >= 0.5):
\* (1,0.5),(1,1),(0,1),(0,0.5).
C2_CutMidline == C2_Case => layers = <<LeftOfMid>>

C2_Witness == C2_Case /\ Len(layers) = 1

\* the infinite line through last.from and last.to misses the bounding box of
\* the layers as they were before the call
LineOutsideBounds ==
    LET b == get_bounds(before, size)
        corners == {<<b[1], b[2]>>, <<b[3], b[2]>>, <<b[3], b[4]>>, <<b[1], b[4]>>}
    IN  \/ \A c \in corners : GtEps(LastSide(c))
        \/ \A c \in corners : LtNegEps(LastSide(c))

\* C3: an operation whose fold line lies entirely outside the bounding box of
\* the paper leaves the layer list unchanged.
C3_NoOpSafety == (Called /\ LineOutsideBounds) => layers = before

AllLeftWithinEps(ls) == \A p \in VerticesOf(ls) : ~LtNegEps(LastSide(p))
NoVertexLeft(ls) == \A p \in VerticesOf(ls) : RLt(LastSide(p), Zero)
NoVertexRight(ls) == \A p \in VerticesOf(ls) : RLt(Zero, LastSide(p))

C5_Case == last.type = "cut" /\ last.side = "left"

\* C5 as stated: after cut(line, keep_side='left') every vertex of every layer
\* has side(vertex, line) >= -epsilon.
C5_Original == C5_Case => AllLeftWithinEps(layers)

\* C5 amended: after cut(line, keep_side='left') every vertex of every layer has
\* side(vertex, line) >= -epsilon, unless no vertex of the paper had side >= 0,
\* in which case the cut is the no-op fallback and the layer list is unchanged.
C5_CutMonotone ==
    C5_Case => \/ AllLeftWithinEps(layers)
               \/ (NoVertexLeft(before) /\ layers = before)

C5_Witness ==
    /\ C5_Case
    /\ layers /= before
    /\ ~AllLeftWithinEps(before)
    /\ AllLeftWithinEps(layers)

\* the operation called last keeps no piece of any layer
ResultWouldBeEmpty ==
    /\ last.type = "cut"
    /\ last.side = "left" => NoVertexLeft(before)
    /\ last.side = "right" => NoVertexRight(before)

\* C6: the layer list is never empty and holds no empty layer; an operation
\* whose result would be empty leaves the layer list as it was.
C6_NeverEmpty ==
    /\ layers /= <<>>
    /\ \A i \in 1..Len(layers) : layers[i] /= <<>>
    /\ ResultWouldBeEmpty => layers = before

C6_Witness == ResultWouldBeEmpty /\ last.side = "left" /\ nops = 2 /\ Len(layers) = 2

\* C9: an operation whose fold line is degenerate (both endpoints coincide)
\* leaves the layer list unchanged.
C9_DegenerateNoOp == (Called /\ last.from = last.to) => layers = before

SpSide(p) ==
    side_of_line(p[1], p[2], sp_line[1][1], sp_line[1][2], sp_line[2][1], sp_line[2][2])
SpNext(i) == sp_polygon[(i % Len(sp_polygon)) + 1]

\* the edges of sp_polygon whose endpoints lie strictly on opposite sides
CrossingEdges ==
    {i \in 1..Len(sp_polygon) :
        \/ (GtEps(SpSide(sp_polygon[i])) /\ LtNegEps(SpSide(SpNext(i))))
        \/ (LtNegEps(SpSide(sp_polygon[i])) /\ GtEps(SpSide(SpNext(i))))}

\* the point where edge i meets the infinite line
CrossingPoint(i) ==
    LET a == sp_polygon[i]
        b == SpNext(i)
        t == RDiv(SpSide(a), RSub(SpSide(a), SpSide(b)))
    IN  <<RAdd(a[1], RMul(t, RSub(b[1], a[1]))), RAdd(a[2], RMul(t, RSub(b[2], a[2])))>>

\* C4: for every edge whose endpoints lie strictly on opposite sides of the
\* line, split_polygon inserts the crossing point exactly once into left and
\* into right, wherever on the line its two defining points are.
C4_CrossingInserted ==
    sp_out /= None =>
        /\ Len(sp_out[1]) = Cardinality({i \in 1..Len(sp_polygon) : RLe(Zero, SpSide(sp_polygon[i]))})
                             + Cardinality(CrossingEdges)
        /\ Len(sp_out[2]) = Cardinality({i \in 1..Len(sp_polygon) : RLe(SpSide(sp_polygon[i]), Zero)})
                             + Cardinality(CrossingEdges)
        /\ \A i \in CrossingEdges :
            CrossingPoint(i) \in VertexSet(sp_out[1]) \cap VertexSet(sp_out[2])

\* paper.layers before (k = i - 1) and after (k = i) the i-th operation
RECURSIVE LayersAfter(_)
LayersAfter(k) ==
    IF k = 0 THEN initial_layers(size)
    ELSE CHOOSE r \in {apply_op(prev, fold_ops[k]) : prev \in {LayersAfter(k - 1)}} : TRUE

\* C7: build_tutorial_svgs returns one diagram per input operation, in input
\* order: the i-th element is the non-empty diagram of the i-th operation,
\* rendered from the states before and after it, with its line, type and label.
C7_OneDiagramPerOp ==
    bpc = "done" =>
        /\ Len(result) = Len(fold_ops)
        /\ \A i \in 1..Len(fold_ops) :
            /\ result[i] /= <<>>
            /\ result[i] = op_svg(LayersAfter(i - 1), LayersAfter(i), size, fold_ops[i])
            /\ \E k \in 1..Len(result[i]) :
                result[i][k].text = get(fold_ops[i], "label", "")

C7_Witness ==
    /\ bpc = "done"
    /\ Len(fold_ops) = 3
    /\ Len(result) = 3
    /\ result[1] /= result[2]
    /\ result[2] /= result[3]
    /\ result[1] /= result[3]

\* C8: an unusable descriptor does not abort the batch: the call returns, with
\* the diagrams of the usable operations.
C8_FailureConfined ==
    bpc \in {"done", "raised"} =>
        /\ bpc = "done"
        /\ Len(result) >= Cardinality({i \in 1..Len(fold_ops) : op_usable(fold_ops[i])})

\* the addresses of the list objects of obj: its layer list and its polygons
AddrsOf(obj) == {obj.layers} \cup {heap[obj.layers].items[i] : i \in 1..Len(heap[obj.layers].items)}

\* C10: after s.clone() the clone has the layers and the size of s; an
\* operation on s leaves the layers of the clone unchanged and an operation on
\* the clone leaves those of s unchanged; the two share no list.
C10_CloneIndependent ==
    c_obj /= NoObj =>
        /\ cl_last = "clone" =>
            /\ LayersOf(heap, c_obj) = LayersOf(heap, s_obj)
            /\ LayersOf(heap, s_obj) = cl_prev[1]
            /\ c_obj.size = s_obj.size
        /\ cl_last = "s" => LayersOf(heap, c_obj) = cl_prev[2]
        /\ cl_last = "c" => LayersOf(heap, s_obj) = cl_prev[1]
        /\ AddrsOf(s_obj) \cap AddrsOf(c_obj) = {}

C10_Witness ==
    /\ c_obj /= NoObj
    /\ cl_last = "c"
    /\ cl_n = 2
    /\ LayersOf(heap, c_obj) /= cl_prev[2]
    /\ LayersOf(heap, s_obj) /= LayersOf(heap, c_obj)
    /\ LayersOf(heap, s_obj) /= initial_layers(One)

\* the type of op is none of the three the builder dispatches on
UnknownType(op) ==
    get(op, "type", "valley_fold") \notin {"valley_fold", "mountain_fold", "cut"}

SplitOfBefore(k) ==
    split_polygon(before[k], last.from[1], last.from[2], last.to[1], last.to[2])

\* polygon poly reflected across the line of the last operation
ReflectedByLast(poly) ==
    [j \in 1..Len(poly) |->
        reflect_point(poly[j][1], poly[j][2],
                      last.from[1], last.from[2], last.to[1], last.to[2])]

\* over the layers k.. of before, in order: the reflection of the moving piece
\* and then the stationary piece, empty pieces omitted
RECURSIVE FoldedFrom(_)
FoldedFrom(k) ==
    IF k > Len(before) THEN <<>>
    ELSE LET lr == SplitOfBefore(k)
             moving == IF last.side \in {"bottom", "right"} THEN lr[2] ELSE lr[1]
             stationary == IF last.side \in {"bottom", "right"} THEN lr[1] ELSE lr[2]
         IN  (IF moving /= <<>> THEN <<ReflectedByLast(moving)>> ELSE <<>>)
             \o (IF stationary /= <<>> THEN <<stationary>> ELSE <<>>)
             \o FoldedFrom(k + 1)

\* C12: valley_fold replaces the layer list by the concatenation, over the
\* original layers in their order, of [reflection of the moving piece,
\* stationary piece] without the empty pieces; the moving piece is the right
\* piece of the split for side 'bottom' or 'right' and the left piece for 'top'
\* or 'left'.
C12_FoldLayerOrder == last.type = "valley_fold" => layers = FoldedFrom(1)

C12_Witness ==
    /\ last.type = "valley_fold"
    /\ last.side \in {"top", "left"}
    /\ Len(before) = 2
    /\ before[1] /= before[2]
    /\ Len(layers) = 4
    /\ layers[2] /= layers[4]
    /\ layers[1] /= layers[3]

\* descriptor op with its type replaced by valley_fold
AsValley(op) == [op EXCEPT !.type = "valley_fold"]

\* diagram m is diagram v with the valley colour and legend label replaced by
\* the mountain ones, and nothing else changed
SameButFoldColor(m, v) ==
    /\ Len(m) = Len(v)
    /\ \A k \in 1..Len(v) :
        /\ m[k].el = v[k].el
        /\ m[k].path = v[k].path
        /\ m[k].nums = v[k].nums
        /\ m[k].opacity = v[k].opacity
        /\ m[k].style = IF v[k].style = fold_color("valley_fold")
                        THEN fold_color("mountain_fold") ELSE v[k].style
        /\ m[k].text = IF v[k].text = fold_label("valley_fold")
                       THEN fold_label("mountain_fold") ELSE v[k].text

LastBuiltIsMountain ==
    /\ bi > 1
    /\ get(fold_ops[bi - 1], "type", "valley_fold") = "mountain_fold"

\* C13: mountain_fold gives the layer list valley_fold gives; in
\* build_tutorial_svgs a mountain_fold descriptor leads to the after state of
\* the valley_fold descriptor with the same line and side, and its diagram
\* differs from that one only in the fold colour and the legend label.
C13_MountainIsValley ==
    LastBuiltIsMountain =>
        LET op == fold_ops[bi - 1]
            prev == LayersAfter(bi - 2)
            fl == op_fold_line(op)
            sd == get(op, "fold_side", "bottom")
        IN  /\ mountain_fold(prev, fl[1], fl[2], sd) = valley_fold(prev, fl[1], fl[2], sd)
            /\ paper = mountain_fold(prev, fl[1], fl[2], sd)
            /\ paper = apply_op(prev, AsValley(op))
            /\ SameButFoldColor(svgs[bi - 1], op_svg(prev, paper, size, AsValley(op)))
            /\ svgs[bi - 1] /= op_svg(prev, paper, size, AsValley(op))

C13_Witness ==
    /\ LastBuiltIsMountain
    /\ bi = 3
    /\ Len(LayersAfter(1)) = 2
    /\ Len(paper) > 2
    /\ Len(svgs) = 2

DiagFrom == P(0,1, 0,1)
DiagTo == P(1,1, 1,1)

C14_Case ==
    /\ last = [type |-> "valley_fold", from |-> DiagFrom, to |-> DiagTo, side |-> "right"]
    /\ before = UnitSquare

\* C14: the diagonal valley fold [[0,0],[1,1]] with side 'right' of the unit
\* square gives exactly two layers, both triangles; the reflected triangle
\* (the first layer) has the vertex set of the stationary one, (0,0),(1,1),(0,1).
C14_DiagonalFold ==
    C14_Case =>
        /\ Len(layers) = 2
        /\ Len(layers[1]) = 3
        /\ Len(layers[2]) = 3
        /\ Cardinality(VertexSet(layers[1])) = 3
        /\ VertexSet(layers[1]) = VertexSet(layers[2])
        /\ VertexSet(layers[2]) = {P(0,1, 0,1), P(1,1, 1,1), P(0,1, 1,1)}
        /\ layers[1] = ReflectedByLast(SplitOfBefore(1)[2])
        /\ layers[2] = SplitOfBefore(1)[1]

C14_Witness == C14_Case /\ Len(layers) = 2 /\ layers[1] /= layers[2]

IsLeft(p) == RLe(Zero, SpSide(p))
IsRight(p) == RLe(SpSide(p), Zero)

\* sequence a is b with some elements left out
RECURSIVE IsSubseq(_, _)
IsSubseq(a, b) ==
    IF a = <<>> THEN TRUE
    ELSE IF b = <<>> THEN FALSE
    ELSE IF Head(a) = Head(b) THEN IsSubseq(Tail(a), Tail(b))
    ELSE IsSubseq(a, Tail(b))

CrossingPoints == {CrossingPoint(i) : i \in CrossingEdges}

\* out holds the input vertices that pass the side test, in input order,
\* and nothing else but crossing points
VerticesPlaced(out, kept) ==
    /\ IsSubseq(kept, out)
    /\ VertexSet(out) \subseteq VertexSet(kept) \cup CrossingPoints
    /\ Len(out) <= Len(kept) + Cardinality(CrossingEdges)

\* point p lies on the segment from a to b
OnSegment(p, a, b) ==
    /\ side_of_line(p[1], p[2], a[1], a[2], b[1], b[2]) = Zero
    /\ RLe(RMin(a[1], b[1]), p[1]) /\ RLe(p[1], RMax(a[1], b[1]))
    /\ RLe(RMin(a[2], b[2]), p[2]) /\ RLe(p[2], RMax(a[2], b[2]))

\* the edge from u to v runs along the splitting line or along an edge of
\* the input polygon
EdgeAccounted(u, v) ==
    \/ SpSide(u) = Zero /\ SpSide(v) = Zero
    \/ \E i \in 1..Len(sp_polygon) :
            OnSegment(u, sp_polygon[i], SpNext(i)) /\ OnSegment(v, sp_polygon[i], SpNext(i))

\* out is empty or a closed cycle: every edge, the closing one included, is
\* accounted for
ClosedCycle(out) ==
    \A k \in 1..Len(out) : EdgeAccounted(out[k], out[(k % Len(out)) + 1])

\* the first half of C15 alone: placement by the side test, order kept, nothing
\* added but crossing points, every input vertex in some output
C15_VerticesPlaced ==
    sp_out /= None =>
        /\ VerticesPlaced(sp_out[1], SelectSeq(sp_polygon, IsLeft))
        /\ VerticesPlaced(sp_out[2], SelectSeq(sp_polygon, IsRight))
        /\ VertexSet(sp_polygon) \subseteq VertexSet(sp_out[1]) \cup VertexSet(sp_out[2])

\* C15: split_polygon places each input vertex in left iff side >= 0 and in
\* right iff side <= 0, keeps the input order and adds nothing but crossing
\* points; every input vertex is in some output, and each output is empty or a
\* closed vertex cycle with no dangling edge.
C15_SplitClosed ==
    sp_out /= None =>
        /\ C15_VerticesPlaced
        /\ ClosedCycle(sp_out[1])
        /\ ClosedCycle(sp_out[2])

\* x is a number: a rational with a positive denominator (a division by zero
\* leaves none)
IsNumber(x) == Len(x) = 2 /\ x[2] > 0
IsPoint(p) == Len(p) = 2 /\ IsNumber(p[1]) /\ IsNumber(p[2])
IsPolygon(poly) == \A k \in 1..Len(poly) : IsPoint(poly[k])

\* the side of point p of the line k_args[2]
KSide(p) ==
    side_of_line(p[1], p[2], k_args[2][1][1], k_args[2][1][2],
                 k_args[2][2][1], k_args[2][2][2])

\* the directions of the segments a and b have a zero cross product
Parallel(a, b) ==
    RSub(RMul(RSub(a[2][1], a[1][1]), RSub(b[2][2], b[1][2])),
         RMul(RSub(a[2][2], a[1][2]), RSub(b[2][1], b[1][1]))) = Zero

\* C16: every geometry helper returns a value of its type for every input: a
\* zero-length line makes reflect return the point unchanged, parallel or
\* collinear segments make the intersection None, and a polygon wholly on one
\* side of the line (or the empty polygon) makes split_polygon return the
\* empty list for the other side.
C16_KernelTotal ==
    /\ k_fn = "reflect" =>
            /\ IsPoint(k_ret)
            /\ k_args[2][1] = k_args[2][2] => k_ret = k_args[1]
            /\ k_back /= None => IsPoint(k_back)
    /\ k_fn = "side" => IsNumber(k_ret)
    /\ k_fn = "intersect" =>
            /\ k_ret = None \/ IsPoint(k_ret)
            /\ Parallel(k_args[1], k_args[2]) => k_ret = None
    /\ k_fn = "split" =>
            /\ Len(k_ret) = 2
            /\ IsPolygon(k_ret[1]) /\ IsPolygon(k_ret[2])
            /\ (\A k \in 1..Len(k_args[1]) : RLt(Zero, KSide(k_args[1][k])))
                    => k_ret = <<k_args[1], <<>>>>
            /\ (\A k \in 1..Len(k_args[1]) : RLt(KSide(k_args[1][k]), Zero))
                    => k_ret = <<<<>>, k_args[1]>>

C16_Witness ==
    /\ k_fn = "reflect"
    /\ k_args[2][1] = k_args[2][2]
    /\ k_args[1] /= k_args[2][1]
    /\ k_ret = k_args[1]
    /\ k_back = k_args[1]

\* C17: for every point P and every line L of non-zero length,
\* reflect(reflect(P, L), L) = P.
C17_ReflectInvolution ==
    (k_fn = "reflect" /\ k_back /= None /\ k_args[2][1] /= k_args[2][2]) =>
        k_back = k_args[1]

C17_Witness ==
    /\ k_fn = "reflect"
    /\ k_back /= None
    /\ k_args[2][1] /= k_args[2][2]
    /\ k_ret /= k_args[1]
    /\ k_ret[1][2] > 2
    /\ k_back = k_args[1]

\* the lines of diagram d, joined, are one <svg> element, opened by the first
\* line and closed by the last, and the text content of every element holds
\* no character that is markup: each text is read back as text, as written
WellFormedMarkup(d) ==
    /\ d /= <<>>
    /\ d[1].el = "svg"
    /\ d[Len(d)].el = "/svg"
    /\ \A k \in 2..(Len(d) - 1) : d[k].el \notin {"svg", "/svg"}
    /\ \A k \in 1..Len(d) : markup_chars(d[k].text) = <<>>

\* C18: for every operation list, whatever the labels hold ('<', '&', quotes),
\* each string build_tutorial_svgs returns is non-empty well-formed markup: one
\* closed <svg> root in which the label occurs only as text content.
C18_WellFormedMarkup ==
    bpc = "done" =>
        \A i \in 1..Len(result) :
            /\ WellFormedMarkup(result[i])
            /\ get(fold_ops[i], "label", "") /= "" =>
                    \E k \in 1..Len(result[i]) :
                        /\ result[i][k].el = "text"
                        /\ result[i][k].text = get(fold_ops[i], "label", "")

\* the fills of the <path> elements drawn for layers (shadow and face)
LayerFills == {"#E8D5C0", "#FFE8E8", "#FFFEF5", "#F5F0E8"}

\* the lines of diagram d that are <path> elements of layers
LayerPaths(d) == {k \in 1..Len(d) : d[k].el = "path" /\ d[k].style \in LayerFills}

NonEmptyLayers(ls) == {i \in 1..Len(ls) : ls[i] /= <<>>}

\* C19: render_step_svg emits no <path> for a layer without points: the
\* layers drawn are the non-empty ones (a shadow and a face each) and no layer
\* path has empty path data.
C19_EmptyLayerSkipped ==
    r_out /= None =>
        /\ \A k \in LayerPaths(r_out) : r_out[k].path /= <<>>
        /\ Cardinality(LayerPaths(r_out)) =
                2 * (Cardinality(NonEmptyLayers(r_before))
                     + Cardinality(NonEmptyLayers(r_after)))

WithMidLine(op) ==
    [k \in DOMAIN op \cup {"fold_line"} |->
        IF k = "fold_line" THEN <<MidFrom, MidTo>> ELSE op[k]]

OmitsFoldLine(op) == "fold_line" \notin DOMAIN op

\* C22: a descriptor that omits fold_line does not raise, and the step it
\* describes leaves the paper and appends the diagram exactly as the same
\* descriptor with fold_line [(0,0.5),(1,0.5)] does.
C22_DefaultFoldLine ==
    /\ (bpc = "raised" => ~OmitsFoldLine(fold_ops[bi]))
    /\ (bi > 1 /\ Len(svgs) = bi - 1 /\ OmitsFoldLine(fold_ops[bi - 1])) =>
            \E prev \in {LayersAfter(bi - 2)} :
                /\ paper = apply_op(prev, WithMidLine(fold_ops[bi - 1]))
                /\ svgs[bi - 1] = op_svg(prev, paper, size, WithMidLine(fold_ops[bi - 1]))

C22_Witness ==
    /\ bpc = "done"
    /\ Len(result) = 2
    /\ ~OmitsFoldLine(fold_ops[1])
    /\ fold_ops[2] = [label |-> "defaults"]
    /\ Len(LayersAfter(1)) = 2
    /\ Len(paper) = 4

\* the operation op (a record like last) called on ls with the line ln instead
OpWithLine(ls, op, ln) ==
    IF op.type = "cut" THEN cut(ls, ln[1], ln[2], op.side)
    ELSE IF op.type = "mountain_fold" THEN mountain_fold(ls, ln[1], ln[2], op.side)
    ELSE valley_fold(ls, ln[1], ln[2], op.side)

\* l1 and l2 are two distinct points each, on the same line, in the same direction
SameDirectedLine(l1, l2) ==
    /\ l1[1] /= l1[2]
    /\ l2[1] /= l2[2]
    /\ side_of_line(l2[1][1], l2[1][2], l1[1][1], l1[1][2], l1[2][1], l1[2][2]) = Zero
    /\ side_of_line(l2[2][1], l2[2][2], l1[1][1], l1[1][2], l1[2][1], l1[2][2]) = Zero
    /\ RLt(Zero, RAdd(RMul(RSub(l1[2][1], l1[1][1]), RSub(l2[2][1], l2[1][1])),
                      RMul(RSub(l1[2][2], l1[1][2]), RSub(l2[2][2], l2[1][2]))))

\* C24: the layers after a valley_fold, mountain_fold or cut depend only on
\* the directed line through the two points: the same call with any other two
\* points of that line, in the same direction, gives the same layer list.
C24_LineOnly ==
    Called =>
        \A ln \in Lines :
            SameDirectedLine(<<last.from, last.to>>, ln) =>
                layers = OpWithLine(before, last, ln)

\* C25: after any sequence of folds and cuts from the initial square every
\* layer is a polygon of at least 3 vertices.
C25_NoDegenerateLayer ==
    \A i \in 1..Len(layers) : Len(layers[i]) >= 3

\* the lines of diagram d that are the faces of the after state (B side), in
\* layer order
AfterFaces(d) ==
    {k \in 1..Len(d) : /\ d[k].el = "path"
                       /\ d[k].style \in {"#FFFEF5", "#F5F0E8"}
                       /\ d[k].opacity /= None}

\* C27: in the after half of every diagram the opacity decreases with the
\* layer index: of two layers the one drawn first has the greater opacity.
C27_OpacityDecreases ==
    (bi > 1 /\ Len(svgs) = bi - 1) =>
        \A i, j \in AfterFaces(svgs[bi - 1]) :
            i < j => RLt(svgs[bi - 1][j].opacity, svgs[bi - 1][i].opacity)

\* C28: the first step is rendered from the initial square of the given
\* size; every step renders the paper as the step before left it (its before)
\* and as its own operation leaves it (its after), so the before of step i+1
\* is the after of step i; between two steps the paper does not change, and a
\* later step leaves the diagrams already rendered as they are.
C28_SnapshotChain ==
    /\ [](bpc = "loop" /\ bi = 1 => paper = initial_layers(size))
    /\ [][/\ bi' = bi + 1 =>
               svgs' = Append(svgs, render_step_svg(paper, paper', size,
                                        op_fold_line(fold_ops[bi]),
                                        get(fold_ops[bi], "type", "valley_fold"),
                                        get(fold_ops[bi], "label", "")))
          /\ bi' = bi => (paper' = paper /\ svgs' = svgs)]_vars

C28_Witness ==
    /\ bpc = "done"
    /\ Len(result) = 3
    /\ LayersAfter(1) /= initial_layers(size)
    /\ LayersAfter(2) /= LayersAfter(1)
    /\ paper /= LayersAfter(2)
    /\ paper = LayersAfter(3)

\* C29: a valley_fold or mountain_fold called on n layers leaves between n
\* and 2n layers; a cut called on n layers leaves between 1 and n layers.
C29_LayerCountBounds ==
    a_pc = "returned" =>
        IF last.type = "cut"
        THEN 1 <= Len(layers) /\ Len(layers) <= Len(before)
        ELSE Len(before) <= Len(layers) /\ Len(layers) <= 2 * Len(before)

C29_Witness ==
    /\ a_pc = "returned"
    /\ last.type = "cut"
    /\ Len(before) = 2
    /\ Len(layers) = 1
    /\ layers[1] /= before[1]
    /\ layers[1] /= before[2]

\* the layer list the operation in progress computes from the list it was
\* called on
FullResult ==
    IF last.type = "cut" THEN cut(before, last.from, last.to, last.side)
    ELSE IF last.type = "mountain_fold"
    THEN mountain_fold(before, last.from, last.to, last.side)
    ELSE valley_fold(before, last.from, last.to, last.side)

\* C23: valley_fold, mountain_fold and cut are atomic: while the call runs
\* and after it has raised, self.layers is the list the call found; after it
\* has returned, self.layers is the fully computed new list (the list it
\* found when no piece is left); it is never a mix of the two.
C23_Atomic ==
    /\ a_pc \in {"loop", "raised"} => layers = before
    /\ a_pc = "returned" => layers = FullResult

C23_Witness ==
    /\ a_pc = "raised"
    /\ nops = 2
    /\ last.from[1] = None
    /\ Len(layers) = 2
    /\ layers /= initial_layers(size)

\* paper.layers after the first k operations of ops, in a call running alone
RECURSIVE AloneLayers(_, _, _)
AloneLayers(ops, k, sz) ==
    IF k = 0 THEN initial_layers(sz)
    ELSE CHOOSE r \in {apply_op(prev, ops[k]) : prev \in {AloneLayers(ops, k - 1, sz)}} : TRUE

\* the list build_tutorial_svgs(ops, sz) returns when it runs alone
AloneSvgs(ops, sz) ==
    [k \in 1..Len(ops) |->
        op_svg(AloneLayers(ops, k - 1, sz), AloneLayers(ops, k, sz), sz, ops[k])]

\* the number of operations call i has applied to its paper
Applied(i) == IF t_pc[i] = "applied" THEN t_bi[i] ELSE t_bi[i] - 1

\* C21: of two concurrent build_tutorial_svgs calls, whatever the order of
\* their steps, each works on a PaperState of its own, which holds at every
\* moment what the call's own operations alone make of the initial square,
\* and each returns the diagrams it returns when it runs alone.
C21_Isolated ==
    \A i \in Invocations :
        /\ \A j \in Invocations \ {i} :
                t_paper[i] /= 0 => t_paper[i] /= t_paper[j]
        /\ t_paper[i] /= 0 =>
                t_objs[t_paper[i]] = AloneLayers(t_ops[i], Applied(i), size)
        /\ t_pc[i] = "done" => t_svgs[i] = AloneSvgs(t_ops[i], size)

C21_Witness ==
    /\ t_pc = <<"done", "done">>
    /\ Len(t_svgs[1]) = 2
    /\ Len(t_svgs[2]) = 2
    /\ t_ops[1] /= t_ops[2]
    /\ t_svgs[1][1] /= t_svgs[2][1]
    /\ t_objs[t_paper[1]] /= t_objs[t_paper[2]]

Reversed(seq) == [k \in 1..Len(seq) |-> seq[Len(seq) + 1 - k]]

\* the two float points agree within 1e-10 in each coordinate
NearPoint(p, q) ==
    /\ FLe(FAbs(FSub(p[1], q[1])), FEps)
    /\ FLe(FAbs(FSub(p[2], q[2])), FEps)

\* every vertex of a has a vertex of b within tolerance, and the other way round
NearVertexSets(a, b) ==
    /\ \A i \in 1..Len(a) : \E j \in 1..Len(b) : NearPoint(a[i], b[j])
    /\ \A j \in 1..Len(b) : \E i \in 1..Len(a) : NearPoint(a[i], b[j])

\* the vertices of poly that are vertices of the polygon split
InputVertices(poly) == {poly[k] : k \in 1..Len(poly)} \cap VertexSet(f_polygon)

\* C26: split_polygon treats both windings alike: the left and right outputs
\* for the reversed vertex sequence hold the same input vertices as those for
\* the sequence itself, and their crossing points agree within the floating
\* tolerance (1e-10 in each coordinate).
C26_WindingTolerant ==
    f_split /= None =>
        \A sd \in 1..2 :
            /\ InputVertices(f_split[1][sd]) = InputVertices(f_split[2][sd])
            /\ NearVertexSets(f_split[1][sd], f_split[2][sd])

\* C26 as stated: the outputs for the two windings have the same vertex sets.
C26_WindingExact ==
    f_split /= None =>
        \A sd \in 1..2 : VertexSet(f_split[1][sd]) = VertexSet(f_split[2][sd])

C26_Witness ==
    /\ f_split /= None
    /\ Len(f_split[1][1]) >= 3
    /\ Len(f_split[1][2]) >= 3
    /\ VertexSet(f_split[1][1]) /= VertexSet(f_split[2][1])
    /\ f_split[1][1] /= Reversed(f_split[2][1])

\* C30: a cut called again with the same line and the same keep_side leaves
\* the layer list as the first call left it.
C30_CutIdempotent ==
    \A k \in 2..Len(f_layers) : f_layers[k] = f_layers[k - 1]

====
